---- MODULE Spec2Model ----
(***************************************************************************)
(* State-machine model of the user identity service: the record store      *)
(* (users, user_profiles, user_preferences, password_reset_tokens), the    *)
(* JWT codec, bcrypt, and the request handlers of user-service.ts as they  *)
(* are reached through the routes of user-routes.ts.                       *)
(*                                                                         *)
(* Time is counted in hours: '24h' = 24, '7d' = 168, 60*60*1000 ms = 1.    *)
(* A handler is split at its store accesses (each `await` of a repository  *)
(* call); the clock may advance between two steps of one request.          *)
(*                                                                         *)
(* Left out: the created_at columns and the updated_at column of users,    *)
(* which the store writes and no handler reads.  The updated_at column of  *)
(* user_profiles and user_preferences is kept: it names the statement that *)
(* last wrote the row, and for an UPDATE the instant it ran.               *)
(***************************************************************************)
EXTENDS Integers, Sequences, FiniteSets, TLC

VARIABLES
    users,        \* rows of table users
    profiles,     \* rows of table user_profiles
    preferences,  \* rows of table user_preferences
    tickets,      \* rows of table password_reset_tokens
    now,          \* the clock (Date.now() and CURRENT_TIMESTAMP), in hours
    ticks,        \* how many times the clock has advanced
    nextSecret,   \* how many uuidv4() reset secrets were generated
    outbox,       \* console.log of requestPasswordReset: the secrets delivered
    held,         \* bearer tokens the clients hold (issued and kept)
    consumed,     \* history: secrets for which resetPassword returned success
    registered,   \* history: the registrations that returned success
    resetUsers,   \* history: ids of the accounts whose password a reset replaced
    req           \* per request slot: the request in flight and its response

vars == <<users, profiles, preferences, tickets, now, ticks, nextSecret,
          outbox, held, consumed, registered, resetUsers, req>>

store == [users |-> users, profiles |-> profiles,
          preferences |-> preferences, tickets |-> tickets]

-----------------------------------------------------------------------------
(* Program constants *)

SALT_ROUNDS == 10
PASSWORD_MIN_LENGTH == 8
JWT_EXPIRY == 24
JWT_REFRESH_EXPIRY == 168
RESET_TOKEN_TTL == 1
JWT_SECRET == "your-super-secret-jwt-key-change-in-production"

(* Bounds of the model *)

MaxTicks == 2
MaxResets == 1
MaxHeld == 1
NumSalts == 2

Salts == 1..NumSalts
\* The request slots: requests in flight at the same time.
Procs == {"p1", "p2"}
\* The slot that serves when requests come one at a time.
Sequential == {"p1"}

(* Inputs the clients send.  An email is the sequence of its characters. *)

EmailA == <<"a", "@", "x", ".", "y">>
EmailB == <<"b", "@", "x", ".", "y">>
EmailNoAt == <<"a", "x", ".", "y">>
Emails == {EmailA, EmailB, EmailNoAt}
Usernames == {"alice", "bob"}
\* Passwords of exactly PASSWORD_MIN_LENGTH characters and of one less.
RegPasswords == {"passw0rd", "passw0r"}
LoginPasswords == {"passw0rd", "newpassw", "passw0r"}
NewPasswords == {"newpassw", "newpass"}
\* A secret the service never issues.
BogusSecret == MaxResets + 1

-----------------------------------------------------------------------------
(* Error codes and responses *)

ErrorCodes == [INVALID_EMAIL |-> "INVALID_EMAIL",
               WEAK_PASSWORD |-> "WEAK_PASSWORD",
               USER_EXISTS |-> "USER_EXISTS",
               EMAIL_TAKEN |-> "EMAIL_TAKEN",
               USERNAME_TAKEN |-> "USERNAME_TAKEN",
               INVALID_CREDENTIALS |-> "INVALID_CREDENTIALS",
               USER_NOT_FOUND |-> "USER_NOT_FOUND",
               EXPIRED_TOKEN |-> "EXPIRED_TOKEN",
               INVALID_TOKEN |-> "INVALID_TOKEN",
               UNAUTHORIZED |-> "UNAUTHORIZED",
               DATABASE_ERROR |-> "DATABASE_ERROR",
               INTERNAL_ERROR |-> "INTERNAL_ERROR",
               INVALID_RESET_TOKEN |-> "INVALID_RESET_TOKEN",
               RESET_TOKEN_EXPIRED |-> "RESET_TOKEN_EXPIRED"]

\* A thrown ServiceError as the route's catch block answers it.
ServiceError(code, message, statusCode) ==
    [status |-> statusCode, error |-> code, message |-> message]

IsError(r) == "error" \in DOMAIN r

-----------------------------------------------------------------------------
(* Input validation *)

IsSpaceOrAt(c) == c \in {" ", "@"}

\* EMAIL_REGEX = /^[^\s@]+@[^\s@]+\.[^\s@]+$/
validateEmail(email) ==
    \E i \in 1..Len(email) : \E j \in 1..Len(email) :
        /\ email[i] = "@"
        /\ email[j] = "."
        /\ 1 < i
        /\ i + 1 < j
        /\ j < Len(email)
        /\ \A k \in 1..Len(email) : k # i => ~IsSpaceOrAt(email[k])

\* validatePassword accepting one character less.
validatePassword_OneShort(password) == Len(password) >= PASSWORD_MIN_LENGTH - 1

\* validatePassword with a strict comparison.
validatePassword_Strict(password) == Len(password) > PASSWORD_MIN_LENGTH

validatePassword(password) == Len(password) >= PASSWORD_MIN_LENGTH

-----------------------------------------------------------------------------
(* bcrypt: a digest is determined by the salt and the plaintext; bcrypt.hash *)
(* draws a fresh random salt, bcrypt.compare re-hashes with the digest's     *)
(* own salt.                                                                 *)

bcryptHash(plain, salt) == [salt |-> salt, plain |-> plain, rounds |-> SALT_ROUNDS]

bcryptCompare(plain, digest) == bcryptHash(plain, digest.salt) = digest

-----------------------------------------------------------------------------
(* jsonwebtoken *)

jwtSign(payload, secret, expiresIn, clock) ==
    LET claims == [userId |-> payload.userId, email |-> payload.email,
                   username |-> payload.username, type |-> payload.type,
                   iat |-> clock, exp |-> clock + expiresIn]
    IN [format |-> "jwt", claims |-> claims,
        sig |-> [over |-> claims, key |-> secret]]

\* jwt.verify reading the expiry claim before it checks the signature.
jwtVerify_ExpiryFirst(token, secret, clock) ==
    IF token.format # "jwt" THEN "JsonWebTokenError"
    ELSE IF clock >= token.claims.exp THEN "TokenExpiredError"
    ELSE IF token.sig # [over |-> token.claims, key |-> secret]
         THEN "JsonWebTokenError"
    ELSE "ok"

\* jwt.verify: "ok", or the class of the error it throws.
jwtVerify(token, secret, clock) ==
    IF token.format # "jwt" THEN "JsonWebTokenError"
    ELSE IF token.sig # [over |-> token.claims, key |-> secret]
         THEN "JsonWebTokenError"
    ELSE IF clock >= token.claims.exp THEN "TokenExpiredError"
    ELSE "ok"

\* generateAccessToken stamping the payload as a refresh token.
generateAccessToken_AsRefresh(userId, email, username, clock) ==
    jwtSign([userId |-> userId, email |-> email, username |-> username,
             type |-> "refresh"], JWT_SECRET, JWT_EXPIRY, clock)

generateAccessToken(userId, email, username, clock) ==
    jwtSign([userId |-> userId, email |-> email, username |-> username,
             type |-> "access"], JWT_SECRET, JWT_EXPIRY, clock)

\* generateRefreshToken signing with the access token's lifetime.
generateRefreshToken_AccessLifetime(userId, email, username, clock) ==
    jwtSign([userId |-> userId, email |-> email, username |-> username,
             type |-> "refresh"], JWT_SECRET, JWT_EXPIRY, clock)

generateRefreshToken(userId, email, username, clock) ==
    jwtSign([userId |-> userId, email |-> email, username |-> username,
             type |-> "refresh"], JWT_SECRET, JWT_REFRESH_EXPIRY, clock)

\* validateToken consulting the store: it rejects the tokens of an account
\* whose password was reset.
validateToken_RevokedByReset(token, clock) ==
    LET v == jwtVerify(token, JWT_SECRET, clock)
    IN IF v = "ok" /\ token.claims.userId \notin resetUsers
       THEN [valid |-> TRUE, userId |-> token.claims.userId,
             email |-> token.claims.email, username |-> token.claims.username]
       ELSE IF v = "TokenExpiredError"
            THEN ServiceError(ErrorCodes.EXPIRED_TOKEN, "Token has expired", 401)
            ELSE ServiceError(ErrorCodes.INVALID_TOKEN, "Invalid token", 401)

\* validateToken: the ValidationResponse it returns, or the ServiceError it throws.
validateToken(token, clock) ==
    LET v == jwtVerify(token, JWT_SECRET, clock)
    IN IF v = "ok"
       THEN [valid |-> TRUE, userId |-> token.claims.userId,
             email |-> token.claims.email, username |-> token.claims.username]
       ELSE IF v = "TokenExpiredError"
            THEN ServiceError(ErrorCodes.EXPIRED_TOKEN, "Token has expired", 401)
            ELSE ServiceError(ErrorCodes.INVALID_TOKEN, "Invalid token", 401)

-----------------------------------------------------------------------------
(* The repository: one operator per query of user-repository.ts.  A find   *)
(* returns the row or NULL; a write returns the relation after the write.  *)

NULL == [null |-> TRUE]

\* The SELECT / RETURNING of users listing password_hash as well.
UserRow_WithHash(u) == u

\* The columns every SELECT / RETURNING of users lists: no password_hash.
UserRow(u) == [id |-> u.id, email |-> u.email, username |-> u.username,
               is_active |-> u.is_active]

\* gen_random_uuid() of users.id: a value no row has (rows are never deleted).
NewUserId == Cardinality(users) + 1

\* The users table created without its UNIQUE constraints.
UniqueViolation_NoConstraint(email, username) == FALSE

\* The UNIQUE constraints of users.email and users.username.
UniqueViolation(email, username) ==
    \E u \in users : u.email = email \/ u.username = username

\* INSERT INTO users ... RETURNING: the stored row.
createUser(email, passwordHash, username) ==
    [id |-> NewUserId, email |-> email, password_hash |-> passwordHash,
     username |-> username, is_active |-> TRUE]

\* updated_at as the INSERT leaves it (DEFAULT CURRENT_TIMESTAMP), and as an
\* UPDATE that runs at instant clock sets it.
InsertedAt == [by |-> "INSERT", at |-> 0]
UpdatedAt(clock) == [by |-> "UPDATE", at |-> clock]

\* user_profiles created with level INTEGER DEFAULT 0.
createUserProfile_LevelZero(userId) ==
    [id |-> Cardinality(profiles) + 1, user_id |-> userId, avatar_url |-> "null",
     level |-> 0, experience |-> 0, stats_wins |-> 0, stats_losses |-> 0,
     updated_at |-> InsertedAt]

\* INSERT INTO user_profiles (user_id): the column defaults of the migration.
createUserProfile(userId) ==
    [id |-> Cardinality(profiles) + 1, user_id |-> userId, avatar_url |-> "null",
     level |-> 1, experience |-> 0, stats_wins |-> 0, stats_losses |-> 0,
     updated_at |-> InsertedAt]

\* INSERT INTO user_preferences (user_id): the column defaults of the migration.
createUserPreferences(userId) ==
    [id |-> Cardinality(preferences) + 1, user_id |-> userId,
     notifications_enabled |-> TRUE, language |-> "en", theme |-> "light",
     updated_at |-> InsertedAt]

findUserByEmail(email) ==
    IF \E u \in users : u.email = email
    THEN UserRow(CHOOSE u \in users : u.email = email)
    ELSE NULL

\* findUserByUsername with a WHERE clause that also asks for is_active = false.
findUserByUsername_InactiveOnly(username) ==
    IF \E u \in users : u.username = username /\ ~u.is_active
    THEN UserRow(CHOOSE u \in users : u.username = username /\ ~u.is_active)
    ELSE NULL

findUserByUsername(username) ==
    IF \E u \in users : u.username = username
    THEN UserRow(CHOOSE u \in users : u.username = username)
    ELSE NULL

findUserById(userId) ==
    IF \E u \in users : u.id = userId
    THEN UserRow(CHOOSE u \in users : u.id = userId)
    ELSE NULL

findUserWithPassword(email) ==
    IF \E u \in users : u.email = email
    THEN CHOOSE u \in users : u.email = email
    ELSE NULL

findUserProfile(userId) ==
    IF \E f \in profiles : f.user_id = userId
    THEN CHOOSE f \in profiles : f.user_id = userId
    ELSE NULL

findUserPreferences(userId) ==
    IF \E f \in preferences : f.user_id = userId
    THEN CHOOSE f \in preferences : f.user_id = userId
    ELSE NULL

\* The columns an update may set: the fields the repository tests for
\* `!== undefined`; any other field of the request body is ignored.
ProfileColumns == {"avatar_url", "level", "experience", "stats_wins", "stats_losses"}
PreferencesColumns == {"notifications_enabled", "language", "theme"}

\* SET that writes updated_at only when the request names a column.
SetColumns_TimestampWithFields(row, updates, columns) ==
    [c \in DOMAIN row |->
        IF c = "updated_at"
        THEN (IF columns \cap DOMAIN updates # {} THEN UpdatedAt(now) ELSE row[c])
        ELSE IF c \in columns \cap DOMAIN updates THEN updates[c] ELSE row[c]]

\* SET <the columns present in updates>, updated_at = CURRENT_TIMESTAMP: the
\* row after the update.
SetColumns(row, updates, columns) ==
    [c \in DOMAIN row |->
        IF c = "updated_at" THEN UpdatedAt(now)
        ELSE IF c \in columns \cap DOMAIN updates THEN updates[c] ELSE row[c]]

\* UPDATE user_profiles SET ... WHERE user_id = $n: the relation after it.
updateUserProfile(userId, updates) ==
    {IF f.user_id = userId THEN SetColumns(f, updates, ProfileColumns) ELSE f :
         f \in profiles}

\* UPDATE user_preferences SET ... WHERE user_id = $n: the relation after it.
updateUserPreferences(userId, updates) ==
    {IF f.user_id = userId THEN SetColumns(f, updates, PreferencesColumns) ELSE f :
         f \in preferences}

\* INSERT INTO password_reset_tokens: the stored row.
createPasswordResetToken(id, userId, tokenHash, expiresAt) ==
    [id |-> id, user_id |-> userId, token_hash |-> tokenHash,
     expires_at |-> expiresAt, created_at |-> now]

\* findPasswordResetToken without the expires_at condition of its WHERE clause.
findPasswordResetToken_AnyAge(tokenHash) ==
    LET live == {t \in tickets : t.token_hash = tokenHash}
    IN {t \in live : \A o \in live : o.created_at <= t.created_at}

\* WHERE token_hash = $1 AND expires_at > CURRENT_TIMESTAMP
\* ORDER BY created_at DESC LIMIT 1: the rows the query may return.
findPasswordResetToken(tokenHash) ==
    LET live == {t \in tickets : t.token_hash = tokenHash /\ t.expires_at > now}
    IN {t \in live : \A o \in live : o.created_at <= t.created_at}

\* deletePasswordResetToken with a WHERE clause that also asks for an expired row.
deletePasswordResetToken_ExpiredOnly(tokenHash) ==
    {t \in tickets : t.token_hash # tokenHash \/ t.expires_at > now}

\* DELETE FROM password_reset_tokens WHERE token_hash = $1
deletePasswordResetToken(tokenHash) ==
    {t \in tickets : t.token_hash # tokenHash}

\* updateUserPassword without its WHERE clause.
updateUserPassword_AllRows(userId, passwordHash) ==
    {[u EXCEPT !.password_hash = passwordHash] : u \in users}

\* updateUserPassword removing the row instead of writing it.
updateUserPassword_DeletesRow(userId, passwordHash) ==
    {u \in users : u.id # userId}

\* UPDATE users SET password_hash = $1, ... WHERE id = $2
updateUserPassword(userId, passwordHash) ==
    {IF u.id = userId THEN [u EXCEPT !.password_hash = passwordHash] ELSE u :
         u \in users}

-----------------------------------------------------------------------------
(* Requests.  req[p] holds the request slot p serves: its operation, the   *)
(* step it is at, its arguments, its local variables, the store as its     *)
(* first step found it, the repository calls it has made (io), and (at     *)
(* "done") the response the route sends.                                   *)

NONE == [none |-> TRUE]
Idle == [op |-> "none", pc |-> "idle", arg |-> NONE, loc |-> NONE,
         pre |-> NONE, resp |-> NONE, io |-> {}]

Ready(p) == req[p].pc = "idle"

\* What a request finds when its first step runs.
Snapshot == [users |-> users, profiles |-> profiles, preferences |-> preferences,
             tickets |-> tickets, held |-> held, now |-> now,
             consumed |-> consumed, registered |-> registered,
             resetUsers |-> resetUsers]

\* The first step of a request ends at step pc, or answers resp at once;
\* io names the repository calls the step made.
Begin(p, op, arg, pc, loc, resp, io) ==
    req' = [req EXCEPT ![p] = [op |-> op, pc |-> pc, arg |-> arg, loc |-> loc,
                               pre |-> Snapshot, resp |-> resp, io |-> io]]

Answer(p, op, arg, resp, io) == Begin(p, op, arg, "done", NONE, resp, io)

Goto(p, pc, loc, io) ==
    req' = [req EXCEPT ![p].pc = pc, ![p].loc = loc, ![p].io = @ \cup io]

Respond(p, resp, io) ==
    req' = [req EXCEPT ![p].pc = "done", ![p].resp = resp, ![p].io = @ \cup io]

storeVars == <<users, profiles, preferences, tickets>>
clockVars == <<now, ticks>>
resetVars == <<nextSecret, outbox, consumed, resetUsers>>
histVars == <<registered>>

\* Tokens a client may present: the ones it holds, altered copies of them,
\* a string that is no JWT, and no token at all.
NoClaims == [userId |-> 0, email |-> <<>>, username |-> "", type |-> "",
             iat |-> 0, exp |-> 0]
Malformed == [format |-> "garbage", claims |-> NoClaims,
              sig |-> [over |-> NoClaims, key |-> ""]]
Missing == [format |-> "missing", claims |-> NoClaims,
            sig |-> [over |-> NoClaims, key |-> ""]]
Tampered(t) == [t EXCEPT !.claims.exp = @ + JWT_REFRESH_EXPIRY]
Forged(t) == [t EXCEPT !.sig.key = "attacker-secret"]
Presentable ==
    held \cup {Tampered(t) : t \in held} \cup {Forged(t) : t \in held}
         \cup {Malformed, Missing}

-----------------------------------------------------------------------------
(* POST /auth/register: registerUser *)

RegisterStart(p, data) ==
    /\ Ready(p)
    /\ IF ~validateEmail(data.email)
       THEN Answer(p, "register", data,
                   ServiceError(ErrorCodes.INVALID_EMAIL, "Invalid email format", 400),
                   {})
       ELSE IF ~validatePassword(data.password)
       THEN Answer(p, "register", data,
                   ServiceError(ErrorCodes.WEAK_PASSWORD,
                                "Password must be at least 8 characters long", 400),
                   {})
       ELSE IF findUserByEmail(data.email) # NULL
       THEN Answer(p, "register", data,
                   ServiceError(ErrorCodes.EMAIL_TAKEN, "Email is already registered", 409),
                   {"findUserByEmail"})
       ELSE Begin(p, "register", data, "reg_findUsername", NONE, NONE,
                  {"findUserByEmail"})
    /\ UNCHANGED <<storeVars, clockVars, resetVars, histVars, held>>

RegisterFindUsername(p) ==
    /\ req[p].pc = "reg_findUsername"
    /\ IF findUserByUsername(req[p].arg.username) # NULL
       THEN Respond(p, ServiceError(ErrorCodes.USERNAME_TAKEN,
                                    "Username is already taken", 409),
                    {"findUserByUsername"})
       ELSE Goto(p, "reg_createUser", NONE, {"findUserByUsername"})
    /\ UNCHANGED <<storeVars, clockVars, resetVars, histVars, held>>

RegisterCreateUser(p, salt) ==
    /\ req[p].pc = "reg_createUser"
    /\ LET data == req[p].arg
           passwordHash == bcryptHash(data.password, salt)
           user == createUser(data.email, passwordHash, data.username)
       IN IF UniqueViolation(data.email, data.username)
          THEN /\ Respond(p, ServiceError(ErrorCodes.DATABASE_ERROR,
                                          "Database operation failed", 500),
                          {"createUser"})
               /\ UNCHANGED users
          ELSE /\ users' = users \cup {user}
               /\ Goto(p, "reg_createProfile", [user |-> UserRow(user)],
                       {"createUser"})
    /\ UNCHANGED <<profiles, preferences, tickets, clockVars, resetVars, histVars, held>>

\* registerUser going on to the preferences without inserting the profile.
RegisterCreateProfile_Skipped(p) ==
    /\ req[p].pc = "reg_createProfile"
    /\ Goto(p, "reg_createPreferences", req[p].loc, {})
    /\ UNCHANGED <<storeVars, clockVars, resetVars, histVars, held>>

RegisterCreateProfile(p) ==
    /\ req[p].pc = "reg_createProfile"
    /\ profiles' = profiles \cup {createUserProfile(req[p].loc.user.id)}
    /\ Goto(p, "reg_createPreferences", req[p].loc, {"createUserProfile"})
    /\ UNCHANGED <<users, preferences, tickets, clockVars, resetVars, histVars, held>>

RegisterCreatePreferences(p) ==
    /\ req[p].pc = "reg_createPreferences"
    /\ preferences' = preferences \cup {createUserPreferences(req[p].loc.user.id)}
    /\ LET user == req[p].loc.user
           token == generateAccessToken(user.id, user.email, user.username, now)
           refreshToken == generateRefreshToken(user.id, user.email, user.username, now)
       IN /\ Respond(p, [status |-> 201, user |-> user, token |-> token,
                         refreshToken |-> refreshToken],
                      {"createUserPreferences"})
          /\ registered' = registered \cup
                 {[id |-> user.id, email |-> req[p].arg.email,
                   password |-> req[p].arg.password,
                   username |-> req[p].arg.username]}
    /\ UNCHANGED <<users, profiles, tickets, clockVars, resetVars, held>>

-----------------------------------------------------------------------------
(* POST /auth/login: loginUser *)

\* loginUser telling an unknown email apart from a wrong password.
loginUser_RevealsUnknownEmail(data) ==
    IF ~validateEmail(data.email)
    THEN ServiceError(ErrorCodes.INVALID_EMAIL, "Invalid email format", 400)
    ELSE LET userWithPassword == findUserWithPassword(data.email)
         IN IF userWithPassword = NULL
            THEN ServiceError(ErrorCodes.USER_NOT_FOUND, "User not found", 404)
            ELSE IF ~bcryptCompare(data.password, userWithPassword.password_hash)
            THEN ServiceError(ErrorCodes.INVALID_CREDENTIALS,
                              "Invalid email or password", 401)
            ELSE LET user == UserRow(userWithPassword)
                 IN [status |-> 200, user |-> user,
                     token |-> generateAccessToken(user.id, user.email,
                                                   user.username, now),
                     refreshToken |-> generateRefreshToken(user.id, user.email,
                                                           user.username, now)]

loginUser(data) ==
    IF ~validateEmail(data.email)
    THEN ServiceError(ErrorCodes.INVALID_EMAIL, "Invalid email format", 400)
    ELSE LET userWithPassword == findUserWithPassword(data.email)
         IN IF userWithPassword = NULL
            THEN ServiceError(ErrorCodes.INVALID_CREDENTIALS,
                              "Invalid email or password", 401)
            ELSE IF ~bcryptCompare(data.password, userWithPassword.password_hash)
            THEN ServiceError(ErrorCodes.INVALID_CREDENTIALS,
                              "Invalid email or password", 401)
            ELSE LET user == UserRow(userWithPassword)
                 IN [status |-> 200, user |-> user,
                     token |-> generateAccessToken(user.id, user.email,
                                                   user.username, now),
                     refreshToken |-> generateRefreshToken(user.id, user.email,
                                                           user.username, now)]

Login(p, data) ==
    /\ Ready(p)
    /\ Answer(p, "login", data, loginUser(data),
              IF validateEmail(data.email) THEN {"findUserWithPassword"} ELSE {})
    /\ UNCHANGED <<storeVars, clockVars, resetVars, histVars, held>>

-----------------------------------------------------------------------------
(* POST /auth/refresh: refreshAccessToken *)

RefreshValidate(p, refreshToken) ==
    /\ Ready(p)
    /\ LET validation == validateToken(refreshToken, now)
       IN IF IsError(validation)
          THEN Answer(p, "refresh", [refreshToken |-> refreshToken], validation,
                      {})
          ELSE IF ~validation.valid \/ validation.userId = 0
          THEN Answer(p, "refresh", [refreshToken |-> refreshToken],
                      ServiceError(ErrorCodes.INVALID_TOKEN,
                                   "Invalid refresh token", 401), {})
          ELSE Begin(p, "refresh", [refreshToken |-> refreshToken],
                     "rf_findUser", [validation |-> validation], NONE, {})
    /\ UNCHANGED <<storeVars, clockVars, resetVars, histVars, held>>

RefreshFindUser(p) ==
    /\ req[p].pc = "rf_findUser"
    /\ LET user == findUserById(req[p].loc.validation.userId)
       IN IF user = NULL
          THEN Respond(p, ServiceError(ErrorCodes.USER_NOT_FOUND,
                                       "User not found", 404),
                       {"findUserById"})
          ELSE Respond(p, [status |-> 200,
                           token |-> generateAccessToken(user.id, user.email,
                                                         user.username, now)],
                       {"findUserById"})
    /\ UNCHANGED <<storeVars, clockVars, resetVars, histVars, held>>

-----------------------------------------------------------------------------
(* POST /auth/validate: validateUserToken *)

validateRoute(token) ==
    IF token.format = "missing"
    THEN ServiceError(ErrorCodes.INVALID_TOKEN, "Token is required", 400)
    ELSE LET result == validateToken(token, now)
         IN IF IsError(result) THEN result
            ELSE [status |-> 200, valid |-> result.valid, userId |-> result.userId,
                  email |-> result.email, username |-> result.username]

Validate(p, token) ==
    /\ Ready(p)
    /\ Answer(p, "validate", [token |-> token], validateRoute(token), {})
    /\ UNCHANGED <<storeVars, clockVars, resetVars, histVars, held>>

-----------------------------------------------------------------------------
(* The protected routes: authenticate, then GET /users/:userId,             *)
(* PUT /users/:userId/profile and PUT /users/:userId/preferences.           *)

\* authenticate: the identity it puts in req.user, or the error it answers.
authenticate(header, clock) ==
    IF header.scheme # "Bearer"
    THEN ServiceError(ErrorCodes.UNAUTHORIZED,
                      "Missing or invalid authorization header", 401)
    ELSE LET validation == validateToken(header.token, clock)
         IN IF IsError(validation) THEN validation
            ELSE IF ~validation.valid
            THEN ServiceError(ErrorCodes.UNAUTHORIZED, "Invalid token", 401)
            ELSE [user |-> [userId |-> validation.userId,
                            email |-> validation.email,
                            username |-> validation.username]]

\* The step that follows findUserById on each route.
AfterFindUser(route) ==
    CASE route = "getUser" -> "gu_findProfile"
      [] route = "updateProfile" -> "up_update"
      [] route = "updatePreferences" -> "uq_update"

\* The route looking the account up before it compares the caller's identity
\* with the path id.
ProtectedStart_LookupFirst(p, route, header, userId, updates) ==
    /\ Ready(p)
    /\ LET arg == [header |-> header, userId |-> userId, updates |-> updates]
           auth == authenticate(header, now)
       IN IF IsError(auth)
          THEN Answer(p, route, arg, auth, {})
          ELSE LET user == findUserById(userId)
               IN IF user = NULL
                  THEN Answer(p, route, arg,
                              ServiceError(ErrorCodes.USER_NOT_FOUND,
                                           "User not found", 404),
                              {"findUserById"})
                  ELSE IF auth.user.userId # userId
                  THEN Answer(p, route, arg,
                              [status |-> 403, error |-> ErrorCodes.UNAUTHORIZED,
                               message |-> "Access denied"], {"findUserById"})
                  ELSE Begin(p, route, arg, AfterFindUser(route),
                             [user |-> user], NONE, {"findUserById"})
    /\ UNCHANGED <<storeVars, clockVars, resetVars, histVars, held>>

\* authenticate, the route's identity check, and the service's findUserById.
ProtectedStart(p, route, header, userId, updates) ==
    /\ Ready(p)
    /\ LET arg == [header |-> header, userId |-> userId, updates |-> updates]
           auth == authenticate(header, now)
       IN IF IsError(auth)
          THEN Answer(p, route, arg, auth, {})
          ELSE IF auth.user.userId # userId
          THEN Answer(p, route, arg,
                      [status |-> 403, error |-> ErrorCodes.UNAUTHORIZED,
                       message |-> "Access denied"], {})
          ELSE LET user == findUserById(userId)
               IN IF user = NULL
                  THEN Answer(p, route, arg,
                              ServiceError(ErrorCodes.USER_NOT_FOUND,
                                           "User not found", 404),
                              {"findUserById"})
                  ELSE Begin(p, route, arg, AfterFindUser(route),
                             [user |-> user], NONE, {"findUserById"})
    /\ UNCHANGED <<storeVars, clockVars, resetVars, histVars, held>>

\* getUserWithProfile: findUserProfile.
GetUserFindProfile(p) ==
    /\ req[p].pc = "gu_findProfile"
    /\ LET profile == findUserProfile(req[p].arg.userId)
       IN IF profile = NULL
          THEN Respond(p, ServiceError(ErrorCodes.USER_NOT_FOUND,
                                       "User profile not found", 404),
                       {"findUserProfile"})
          ELSE Goto(p, "gu_findPreferences",
                    [user |-> req[p].loc.user, profile |-> profile],
                    {"findUserProfile"})
    /\ UNCHANGED <<storeVars, clockVars, resetVars, histVars, held>>

\* getUserWithProfile returning the account and its profile when the
\* preferences are missing.
GetUserFindPreferences_Lenient(p) ==
    /\ req[p].pc = "gu_findPreferences"
    /\ Respond(p, [status |-> 200, user |-> req[p].loc.user,
                   profile |-> req[p].loc.profile,
                   preferences |-> findUserPreferences(req[p].arg.userId)],
               {"findUserPreferences"})
    /\ UNCHANGED <<storeVars, clockVars, resetVars, histVars, held>>

\* getUserWithProfile: findUserPreferences.
GetUserFindPreferences(p) ==
    /\ req[p].pc = "gu_findPreferences"
    /\ LET found == findUserPreferences(req[p].arg.userId)
       IN IF found = NULL
          THEN Respond(p, ServiceError(ErrorCodes.USER_NOT_FOUND,
                                       "User preferences not found", 404),
                       {"findUserPreferences"})
          ELSE Respond(p, [status |-> 200, user |-> req[p].loc.user,
                           profile |-> req[p].loc.profile,
                           preferences |-> found],
                       {"findUserPreferences"})
    /\ UNCHANGED <<storeVars, clockVars, resetVars, histVars, held>>

\* updateProfile: updateUserProfile.
UpdateProfileWrite(p) ==
    /\ req[p].pc = "up_update"
    /\ IF findUserProfile(req[p].arg.userId) = NULL
       THEN /\ Respond(p, ServiceError(ErrorCodes.USER_NOT_FOUND,
                                       "User profile not found", 404),
                       {"updateUserProfile"})
            /\ UNCHANGED profiles
       ELSE /\ profiles' = updateUserProfile(req[p].arg.userId, req[p].arg.updates)
            /\ Goto(p, "up_findPreferences",
                    [user |-> req[p].loc.user,
                     profile |-> SetColumns(findUserProfile(req[p].arg.userId),
                                            req[p].arg.updates, ProfileColumns)],
                    {"updateUserProfile"})
    /\ UNCHANGED <<users, preferences, tickets, clockVars, resetVars, histVars, held>>

\* updateProfile: findUserPreferences.
UpdateProfileFindPreferences(p) ==
    /\ req[p].pc = "up_findPreferences"
    /\ LET found == findUserPreferences(req[p].arg.userId)
       IN IF found = NULL
          THEN Respond(p, ServiceError(ErrorCodes.USER_NOT_FOUND,
                                       "User preferences not found", 404),
                       {"findUserPreferences"})
          ELSE Respond(p, [status |-> 200, user |-> req[p].loc.user,
                           profile |-> req[p].loc.profile,
                           preferences |-> found],
                       {"findUserPreferences"})
    /\ UNCHANGED <<storeVars, clockVars, resetVars, histVars, held>>

\* updatePreferences: updateUserPreferences.
UpdatePreferencesWrite(p) ==
    /\ req[p].pc = "uq_update"
    /\ IF findUserPreferences(req[p].arg.userId) = NULL
       THEN /\ Respond(p, ServiceError(ErrorCodes.USER_NOT_FOUND,
                                       "User preferences not found", 404),
                       {"updateUserPreferences"})
            /\ UNCHANGED preferences
       ELSE /\ preferences' = updateUserPreferences(req[p].arg.userId,
                                                    req[p].arg.updates)
            /\ Goto(p, "uq_findProfile",
                    [user |-> req[p].loc.user,
                     preferences |->
                         SetColumns(findUserPreferences(req[p].arg.userId),
                                    req[p].arg.updates, PreferencesColumns)],
                    {"updateUserPreferences"})
    /\ UNCHANGED <<users, profiles, tickets, clockVars, resetVars, histVars, held>>

\* updatePreferences: findUserProfile.
UpdatePreferencesFindProfile(p) ==
    /\ req[p].pc = "uq_findProfile"
    /\ LET profile == findUserProfile(req[p].arg.userId)
       IN IF profile = NULL
          THEN Respond(p, ServiceError(ErrorCodes.USER_NOT_FOUND,
                                       "User profile not found", 404),
                       {"findUserProfile"})
          ELSE Respond(p, [status |-> 200, user |-> req[p].loc.user,
                           profile |-> profile,
                           preferences |-> req[p].loc.preferences],
                       {"findUserProfile"})
    /\ UNCHANGED <<storeVars, clockVars, resetVars, histVars, held>>

-----------------------------------------------------------------------------
(* POST /auth/request-password-reset: requestPasswordReset *)

ResetRequested == [status |-> 200,
                   message |-> "If the email exists, a password reset link has been sent"]

\* requestPasswordReset answering an unknown email with an error.
RequestResetFind_RevealsUnknownEmail(p, data) ==
    /\ Ready(p)
    /\ LET user == findUserByEmail(data.email)
       IN IF user = NULL
          THEN Answer(p, "requestReset", data,
                      ServiceError(ErrorCodes.USER_NOT_FOUND, "User not found", 404),
                      {"findUserByEmail"})
          ELSE Begin(p, "requestReset", data, "rq_create", [user |-> user], NONE,
                     {"findUserByEmail"})
    /\ UNCHANGED <<storeVars, clockVars, resetVars, histVars, held>>

RequestResetFind(p, data) ==
    /\ Ready(p)
    /\ LET user == findUserByEmail(data.email)
       IN IF user = NULL
          THEN Answer(p, "requestReset", data, ResetRequested, {"findUserByEmail"})
          ELSE Begin(p, "requestReset", data, "rq_create", [user |-> user], NONE,
                     {"findUserByEmail"})
    /\ UNCHANGED <<storeVars, clockVars, resetVars, histVars, held>>

\* requestPasswordReset deleting the account's earlier tickets before it
\* stores the new one.
RequestResetCreate_ReplacesTickets(p, salt) ==
    /\ req[p].pc = "rq_create"
    /\ LET user == req[p].loc.user
           resetToken == nextSecret + 1
           tokenHash == bcryptHash(resetToken, salt)
           expiresAt == now + RESET_TOKEN_TTL
       IN /\ tickets' = {t \in tickets : t.user_id # user.id} \cup
                 {createPasswordResetToken(resetToken, user.id, tokenHash, expiresAt)}
          /\ nextSecret' = resetToken
          /\ outbox' = outbox \cup {[email |-> user.email, secret |-> resetToken]}
    /\ Respond(p, ResetRequested, {"createPasswordResetToken"})
    /\ UNCHANGED <<users, profiles, preferences, clockVars, consumed, resetUsers,
                   histVars, held>>

\* requestPasswordReset also extending the account's earlier tickets to the
\* new expiry.
RequestResetCreate_RenewsTickets(p, salt) ==
    /\ req[p].pc = "rq_create"
    /\ LET user == req[p].loc.user
           resetToken == nextSecret + 1
           tokenHash == bcryptHash(resetToken, salt)
           expiresAt == now + RESET_TOKEN_TTL
       IN /\ tickets' = {IF t.user_id = user.id
                         THEN [t EXCEPT !.expires_at = expiresAt] ELSE t :
                             t \in tickets} \cup
                 {createPasswordResetToken(resetToken, user.id, tokenHash, expiresAt)}
          /\ nextSecret' = resetToken
          /\ outbox' = outbox \cup {[email |-> user.email, secret |-> resetToken]}
    /\ Respond(p, ResetRequested, {"createPasswordResetToken"})
    /\ UNCHANGED <<users, profiles, preferences, clockVars, consumed, resetUsers,
                   histVars, held>>

RequestResetCreate(p, salt) ==
    /\ req[p].pc = "rq_create"
    /\ LET user == req[p].loc.user
           resetToken == nextSecret + 1
           tokenHash == bcryptHash(resetToken, salt)
           expiresAt == now + RESET_TOKEN_TTL
       IN /\ tickets' = tickets \cup
                 {createPasswordResetToken(resetToken, user.id, tokenHash, expiresAt)}
          /\ nextSecret' = resetToken
          /\ outbox' = outbox \cup {[email |-> user.email, secret |-> resetToken]}
    /\ Respond(p, ResetRequested, {"createPasswordResetToken"})
    /\ UNCHANGED <<users, profiles, preferences, clockVars, consumed, resetUsers,
                   histVars, held>>

-----------------------------------------------------------------------------
(* POST /auth/reset-password: resetPassword *)

\* The secrets a client may present: those delivered, and one never issued.
Secrets == {o.secret : o \in outbox} \cup {BogusSecret}

ResetLookup(p, data, salt) ==
    /\ Ready(p)
    /\ IF ~validatePassword(data.newPassword)
       THEN Answer(p, "resetPassword", data,
                   ServiceError(ErrorCodes.WEAK_PASSWORD,
                                "Password must be at least 8 characters long", 400),
                   {})
       ELSE LET tokenHash == bcryptHash(data.token, salt)
                found == findPasswordResetToken(tokenHash)
            IN IF found = {}
               THEN Answer(p, "resetPassword", data,
                           ServiceError(ErrorCodes.INVALID_RESET_TOKEN,
                                        "Invalid or expired reset token", 400),
                           {"findPasswordResetToken"})
               ELSE \E resetToken \in found :
                        Begin(p, "resetPassword", data, "rp_update",
                              [tokenHash |-> tokenHash, resetToken |-> resetToken],
                              NONE, {"findPasswordResetToken"})
    /\ UNCHANGED <<storeVars, clockVars, resetVars, histVars, held>>

ResetUpdate(p, salt) ==
    /\ req[p].pc = "rp_update"
    /\ IF now > req[p].loc.resetToken.expires_at
       THEN /\ Respond(p, ServiceError(ErrorCodes.RESET_TOKEN_EXPIRED,
                                       "Reset token has expired", 400), {})
            /\ UNCHANGED <<users, resetUsers>>
       ELSE /\ users' = updateUserPassword(req[p].loc.resetToken.user_id,
                                           bcryptHash(req[p].arg.newPassword, salt))
            /\ resetUsers' = resetUsers \cup {req[p].loc.resetToken.user_id}
            /\ Goto(p, "rp_delete", req[p].loc, {"updateUserPassword"})
    /\ UNCHANGED <<profiles, preferences, tickets, clockVars, nextSecret, outbox,
                   consumed, histVars, held>>

ResetDelete(p) ==
    /\ req[p].pc = "rp_delete"
    /\ tickets' = deletePasswordResetToken(req[p].loc.tokenHash)
    /\ consumed' = consumed \cup {req[p].arg.token}
    /\ Respond(p, [status |-> 200,
                   message |-> "Password has been reset successfully"],
               {"deletePasswordResetToken"})
    /\ UNCHANGED <<users, profiles, preferences, clockVars, nextSecret, outbox,
                   resetUsers, histVars, held>>

-----------------------------------------------------------------------------
(* Failures: a query the store rejects or cannot run, and an exception that *)
(* is no ServiceError.                                                      *)

\* What the query wrapper throws when pool.query fails, as the route answers it.
DatabaseError ==
    ServiceError(ErrorCodes.DATABASE_ERROR, "Database operation failed", 500)

\* What the else branch of a route's catch block answers.
InternalError ==
    [status |-> 500, error |-> ErrorCodes.INTERNAL_ERROR,
     message |-> "Internal server error"]

\* The repository call that the step at each position starts with.
QueryAt ==
    [reg_findUsername |-> "findUserByUsername",
     reg_createUser |-> "createUser",
     reg_createProfile |-> "createUserProfile",
     reg_createPreferences |-> "createUserPreferences",
     rf_findUser |-> "findUserById",
     gu_findProfile |-> "findUserProfile",
     gu_findPreferences |-> "findUserPreferences",
     up_update |-> "updateUserProfile",
     up_findPreferences |-> "findUserPreferences",
     uq_update |-> "updateUserPreferences",
     uq_findProfile |-> "findUserProfile",
     rq_create |-> "createPasswordResetToken",
     rp_update |-> "updateUserPassword",
     rp_delete |-> "deletePasswordResetToken"]

\* The query wrapper answering a failed query with INTERNAL_ERROR and the
\* driver's message.
QueryFails_LeaksDriverError(p) ==
    /\ req[p].pc \in DOMAIN QueryAt
    /\ req[p].pc = "rp_update" => ~(now > req[p].loc.resetToken.expires_at)
    /\ Respond(p, [status |-> 500, error |-> ErrorCodes.INTERNAL_ERROR,
                   message |-> "connect ECONNREFUSED 127.0.0.1:5432"],
               {QueryAt[req[p].pc], "failed"})
    /\ UNCHANGED <<storeVars, clockVars, resetVars, histVars, held>>

\* registerUser running its inserts in one transaction: a failed query undoes
\* the inserts the request made.
QueryFails_RollsBack(p) ==
    /\ req[p].pc \in DOMAIN QueryAt
    /\ req[p].pc = "rp_update" => ~(now > req[p].loc.resetToken.expires_at)
    /\ Respond(p, DatabaseError, {QueryAt[req[p].pc], "failed"})
    /\ IF req[p].op = "register"
       THEN /\ users' = req[p].pre.users
            /\ profiles' = req[p].pre.profiles
            /\ preferences' = req[p].pre.preferences
       ELSE UNCHANGED <<users, profiles, preferences>>
    /\ UNCHANGED <<tickets, clockVars, resetVars, histVars, held>>

\* The query of the next step of a request in flight fails: the statement has
\* no effect and the request ends with what the query wrapper throws.
QueryFails(p) ==
    /\ req[p].pc \in DOMAIN QueryAt
    /\ req[p].pc = "rp_update" => ~(now > req[p].loc.resetToken.expires_at)
    /\ Respond(p, DatabaseError, {QueryAt[req[p].pc], "failed"})
    /\ UNCHANGED <<storeVars, clockVars, resetVars, histVars, held>>

\* The first repository call of a request, "none" when the request is
\* refused before it makes one.
FirstQuery(op, arg) ==
    CASE op = "register" ->
             IF validateEmail(arg.email) /\ validatePassword(arg.password)
             THEN "findUserByEmail" ELSE "none"
      [] op = "login" ->
             IF validateEmail(arg.email) THEN "findUserWithPassword" ELSE "none"
      [] op = "requestReset" -> "findUserByEmail"
      [] op = "resetPassword" ->
             IF validatePassword(arg.newPassword)
             THEN "findPasswordResetToken" ELSE "none"
      [] op \in {"getUser", "updateProfile", "updatePreferences"} ->
             LET auth == authenticate(arg.header, now)
             IN IF ~IsError(auth) /\ auth.user.userId = arg.userId
                THEN "findUserById" ELSE "none"

\* The first query of a request fails.
FirstQueryFails(p, op, arg) ==
    /\ Ready(p)
    /\ FirstQuery(op, arg) # "none"
    /\ Answer(p, op, arg, DatabaseError, {FirstQuery(op, arg), "failed"})
    /\ UNCHANGED <<storeVars, clockVars, resetVars, histVars, held>>

\* POST /auth/register with a body that has no password: validatePassword
\* reads the length of undefined and throws a TypeError.
RegisterWithoutPassword(p, data) ==
    /\ Ready(p)
    /\ IF ~validateEmail(data.email)
       THEN Answer(p, "register", data,
                   ServiceError(ErrorCodes.INVALID_EMAIL, "Invalid email format", 400),
                   {})
       ELSE Answer(p, "register", data, InternalError, {})
    /\ UNCHANGED <<storeVars, clockVars, resetVars, histVars, held>>

-----------------------------------------------------------------------------
(* The environment *)

\* The tokens a response carries.
TokensOf(resp) ==
    (IF "token" \in DOMAIN resp THEN {resp.token} ELSE {})
        \cup (IF "refreshToken" \in DOMAIN resp THEN {resp.refreshToken} ELSE {})

\* The client takes the response and keeps some of its tokens; the slot is free.
Return(p, kept) ==
    /\ req[p].pc = "done"
    /\ kept \subseteq TokensOf(req[p].resp)
    /\ held' = held \cup kept
    /\ req' = [req EXCEPT ![p] = Idle]
    /\ UNCHANGED <<storeVars, clockVars, resetVars, histVars>>

\* Time passes.
Tick(d) ==
    /\ now' = now + d
    /\ ticks' = ticks + 1
    /\ UNCHANGED <<storeVars, resetVars, histVars, held, req>>

\* A client drops a token it holds.
Discard(t) ==
    /\ t \in held
    /\ held' = held \ {t}
    /\ UNCHANGED <<storeVars, clockVars, resetVars, histVars, req>>

-----------------------------------------------------------------------------
(* The specifications *)

Init ==
    /\ users = {}
    /\ profiles = {}
    /\ preferences = {}
    /\ tickets = {}
    /\ now = 0
    /\ ticks = 0
    /\ nextSecret = 0
    /\ outbox = {}
    /\ held = {}
    /\ consumed = {}
    /\ registered = {}
    /\ resetUsers = {}
    /\ req = [p \in Procs |-> Idle]

RegisterInputs == [email : Emails, password : RegPasswords, username : Usernames]
LoginInputs == [email : Emails, password : LoginPasswords]
ResetInputs == [token : Secrets, newPassword : NewPasswords]

\* The steps of registerUser and loginUser.
AccountStep(p, inputs) ==
    \/ \E data \in inputs : RegisterStart(p, data)
    \/ RegisterFindUsername(p)
    \/ \E salt \in Salts : RegisterCreateUser(p, salt)
    \/ RegisterCreateProfile(p)
    \/ RegisterCreatePreferences(p)
    \/ \E data \in LoginInputs : Login(p, data)

\* The steps of requestPasswordReset and resetPassword.
ResetStep(p) ==
    \/ \E email \in Emails :
          nextSecret < MaxResets /\ RequestResetFind(p, [email |-> email])
    \/ \E salt \in Salts : RequestResetCreate(p, salt)
    \/ \E data \in ResetInputs : \E salt \in Salts : ResetLookup(p, data, salt)
    \/ \E salt \in Salts : ResetUpdate(p, salt)
    \/ ResetDelete(p)

\* The steps of refreshAccessToken and validateUserToken.
TokenStep(p) ==
    \/ \E token \in Presentable : RefreshValidate(p, token)
    \/ RefreshFindUser(p)
    \/ \E token \in Presentable : Validate(p, token)

\* Accounts and password resets, one request at a time; the clock advances
\* by the hour and the clients keep no tokens.
Next ==
    \/ \E p \in Sequential : AccountStep(p, RegisterInputs)
    \/ \E p \in Sequential : ResetStep(p)
    \/ \E p \in Sequential : Return(p, {})
    \/ ticks < MaxTicks /\ Tick(RESET_TOKEN_TTL)

Spec == Init /\ [][Next]_vars

\* One account and its bearer tokens, one request at a time; the clock
\* advances by an hour or by a token lifetime.
TokenRegisterInputs == [email : {EmailA, EmailNoAt}, password : RegPasswords,
                        username : {"alice"}]
TokenTickSteps == {RESET_TOKEN_TTL, JWT_EXPIRY, JWT_REFRESH_EXPIRY}

NextTokens ==
    \/ \E p \in Sequential : AccountStep(p, TokenRegisterInputs)
    \/ \E p \in Sequential : TokenStep(p)
    \/ \E p \in Sequential : \E kept \in SUBSET TokensOf(req[p].resp) :
          Cardinality(held \cup kept) <= MaxHeld /\ Return(p, kept)
    \/ \E d \in TokenTickSteps : ticks < MaxTicks /\ Tick(d)
    \/ \E t \in held : Discard(t)

SpecTokens == Init /\ [][NextTokens]_vars

\* Two accounts, their bearer tokens and the protected routes, one request at
\* a time; between two requests the clock advances by the lifetime of an
\* access token.
ProtectedRegisterInputs ==
    {[email |-> EmailA, password |-> "passw0rd", username |-> "alice"],
     [email |-> EmailB, password |-> "passw0rd", username |-> "bob"]}
Headers ==
    {[scheme |-> "none", token |-> Missing], [scheme |-> "Basic", token |-> Missing]}
        \cup {[scheme |-> "Bearer", token |-> t] : t \in Presentable}
\* Path ids: those of the accounts, and one no account has.
PathIds == {u.id : u \in users} \cup {NewUserId}
ProfileUpdates == {[level |-> 2, user_id |-> NewUserId]}
PreferencesUpdates == {[theme |-> "dark"]}

\* The steps of the protected routes.
ProtectedStep(p) ==
    \/ \E header \in Headers : \E userId \in PathIds :
          ProtectedStart(p, "getUser", header, userId, NONE)
    \/ \E header \in Headers : \E userId \in PathIds :
          \E updates \in ProfileUpdates :
              ProtectedStart(p, "updateProfile", header, userId, updates)
    \/ \E header \in Headers : \E userId \in PathIds :
          \E updates \in PreferencesUpdates :
              ProtectedStart(p, "updatePreferences", header, userId, updates)
    \/ GetUserFindProfile(p)
    \/ GetUserFindPreferences(p)
    \/ UpdateProfileWrite(p)
    \/ UpdateProfileFindPreferences(p)
    \/ UpdatePreferencesWrite(p)
    \/ UpdatePreferencesFindProfile(p)

NextProtected ==
    \/ \E p \in Sequential : \E data \in ProtectedRegisterInputs :
          RegisterStart(p, data)
    \/ \E p \in Sequential : RegisterFindUsername(p)
    \/ \E p \in Sequential : \E salt \in {1} : RegisterCreateUser(p, salt)
    \/ \E p \in Sequential : RegisterCreateProfile(p)
    \/ \E p \in Sequential : RegisterCreatePreferences(p)
    \/ \E p \in Sequential : ProtectedStep(p)
    \/ \E p \in Sequential : \E kept \in SUBSET TokensOf(req[p].resp) :
          Cardinality(held \cup kept) <= MaxHeld /\ Return(p, kept)
    \/ /\ ticks < MaxTicks - 1
       /\ \A p \in Procs : Ready(p)
       /\ Tick(JWT_EXPIRY)

SpecProtected == Init /\ [][NextProtected]_vars

\* Registrations in flight at the same time: two request slots, two emails,
\* two usernames.
RaceRegisterInputs == [email : {EmailA, EmailB}, password : {"passw0rd"},
                       username : Usernames]

NextRace ==
    \/ \E p \in Procs : \E data \in RaceRegisterInputs : RegisterStart(p, data)
    \/ \E p \in Procs : RegisterFindUsername(p)
    \/ \E p \in Procs : \E salt \in {1} : RegisterCreateUser(p, salt)
    \/ \E p \in Procs : RegisterCreateProfile(p)
    \/ \E p \in Procs : RegisterCreatePreferences(p)
    \/ \E p \in Procs : Return(p, {})

SpecRace == Init /\ [][NextRace]_vars

\* Password resets in flight at the same time: one account, two request slots
\* confirming with two passwords of at least PASSWORD_MIN_LENGTH characters.
ResetRaceRegisterInputs ==
    {[email |-> EmailA, password |-> "passw0rd", username |-> "alice"]}
ResetRaceInputs == [token : Secrets, newPassword : {"newpassw", "passw0rd"}]

NextResetRace ==
    \/ \E p \in Sequential : \E data \in ResetRaceRegisterInputs :
          RegisterStart(p, data)
    \/ \E p \in Sequential : RegisterFindUsername(p)
    \/ \E p \in Sequential : \E salt \in {1} : RegisterCreateUser(p, salt)
    \/ \E p \in Sequential : RegisterCreateProfile(p)
    \/ \E p \in Sequential : RegisterCreatePreferences(p)
    \/ \E p \in Procs :
          nextSecret < MaxResets /\ RequestResetFind(p, [email |-> EmailA])
    \/ \E p \in Procs : \E salt \in Salts : RequestResetCreate(p, salt)
    \/ \E p \in Procs : \E data \in ResetRaceInputs : \E salt \in Salts :
          ResetLookup(p, data, salt)
    \/ \E p \in Procs : \E salt \in {1} : ResetUpdate(p, salt)
    \/ \E p \in Procs : ResetDelete(p)
    \/ \E p \in Procs : Return(p, {})

SpecResetRace == Init /\ [][NextResetRace]_vars

\* Two accounts and the two update routes, one request at a time; the clock
\* advances by the hour.  The updates are those of one of the accounts, whose
\* owner presents the access token a login at that instant issues; a request
\* body names no field, one field, or two fields.
UpdateRegisterInputs == ProtectedRegisterInputs
NoFields == [c \in {} |-> 0]
ProfileRequests ==
    {NoFields, [level |-> 2], [avatar_url |-> "a.png", stats_wins |-> 1]}
PreferencesRequests ==
    {NoFields, [theme |-> "dark"], [language |-> "fr", notifications_enabled |-> FALSE]}
Updaters == {u \in users : u.username = "alice"}
BearerHeader(u) ==
    [scheme |-> "Bearer",
     token |-> generateAccessToken(u.id, u.email, u.username, now)]

NextUpdates ==
    \/ \E p \in Sequential : \E data \in UpdateRegisterInputs :
          RegisterStart(p, data)
    \/ \E p \in Sequential : RegisterFindUsername(p)
    \/ \E p \in Sequential : \E salt \in {1} : RegisterCreateUser(p, salt)
    \/ \E p \in Sequential : RegisterCreateProfile(p)
    \/ \E p \in Sequential : RegisterCreatePreferences(p)
    \/ \E p \in Sequential : \E u \in Updaters : \E updates \in ProfileRequests :
          ProtectedStart(p, "updateProfile", BearerHeader(u), u.id, updates)
    \/ \E p \in Sequential : \E u \in Updaters : \E updates \in PreferencesRequests :
          ProtectedStart(p, "updatePreferences", BearerHeader(u), u.id, updates)
    \/ \E p \in Sequential : UpdateProfileWrite(p)
    \/ \E p \in Sequential : UpdateProfileFindPreferences(p)
    \/ \E p \in Sequential : UpdatePreferencesWrite(p)
    \/ \E p \in Sequential : UpdatePreferencesFindProfile(p)
    \/ \E p \in Sequential : Return(p, {})
    \/ ticks < MaxTicks /\ Tick(RESET_TOKEN_TTL)

SpecUpdates == Init /\ [][NextUpdates]_vars

\* Every route but /auth/validate, one request at a time, each owner
\* presenting the tokens a login at that instant issues; some register
\* bodies carry no password.  Password resets are those of one account.
FaultRegisterInputs ==
    {[email |-> EmailA, password |-> "passw0rd", username |-> "alice"],
     [email |-> EmailB, password |-> "passw0rd", username |-> "bob"],
     [email |-> EmailB, password |-> "passw0rd", username |-> "alice"],
     [email |-> EmailA, password |-> "passw0r", username |-> "alice"]}
BodiesWithoutPassword == [email : {EmailA, EmailNoAt}, username : {"alice"}]
FaultLoginInputs == [email : {EmailA}, password : {"passw0rd", "newpassw"}]
FaultResetInputs == [token : Secrets, newPassword : {"newpassw"}]
OwnRequest(u) == [header |-> BearerHeader(u), userId |-> u.id, updates |-> NONE]
OwnUpdate(u) == [header |-> BearerHeader(u), userId |-> u.id, updates |-> NoFields]
OwnRefreshToken(u) == generateRefreshToken(u.id, u.email, u.username, now)

\* The steps of these requests when the store answers the query.
ServedStep(p) ==
    \/ AccountStep(p, FaultRegisterInputs)
    \/ \E data \in BodiesWithoutPassword : RegisterWithoutPassword(p, data)
    \/ \E u \in users : RefreshValidate(p, OwnRefreshToken(u))
    \/ RefreshFindUser(p)
    \/ \E u \in users :
          ProtectedStart(p, "getUser", BearerHeader(u), u.id, NONE)
    \/ \E u \in users :
          ProtectedStart(p, "updateProfile", BearerHeader(u), u.id, NoFields)
    \/ \E u \in users :
          ProtectedStart(p, "updatePreferences", BearerHeader(u), u.id, NoFields)
    \/ GetUserFindProfile(p)
    \/ GetUserFindPreferences(p)
    \/ UpdateProfileWrite(p)
    \/ UpdateProfileFindPreferences(p)
    \/ UpdatePreferencesWrite(p)
    \/ UpdatePreferencesFindProfile(p)
    \/ nextSecret < MaxResets /\ RequestResetFind(p, [email |-> EmailA])
    \/ \E salt \in Salts : RequestResetCreate(p, salt)
    \/ \E data \in FaultResetInputs : \E salt \in Salts : ResetLookup(p, data, salt)
    \/ \E salt \in {1} : ResetUpdate(p, salt)
    \/ ResetDelete(p)

\* The same requests with their first query failing.
FaultAtStart(p) ==
    \/ \E data \in FaultRegisterInputs : FirstQueryFails(p, "register", data)
    \/ \E data \in FaultLoginInputs : FirstQueryFails(p, "login", data)
    \/ FirstQueryFails(p, "requestReset", [email |-> EmailA])
    \/ \E data \in FaultResetInputs : FirstQueryFails(p, "resetPassword", data)
    \/ \E u \in users : FirstQueryFails(p, "getUser", OwnRequest(u))
    \/ \E u \in users : FirstQueryFails(p, "updateProfile", OwnUpdate(u))
    \/ \E u \in users : FirstQueryFails(p, "updatePreferences", OwnUpdate(u))

\* A store that answers every query.
NextServed ==
    \/ \E p \in Sequential : ServedStep(p)
    \/ \E p \in Sequential : Return(p, {})

SpecServed == Init /\ [][NextServed]_vars

\* A store whose queries may fail.
NextFaults ==
    \/ \E p \in Sequential : ServedStep(p)
    \/ \E p \in Sequential : FaultAtStart(p)
    \/ \E p \in Sequential : QueryFails(p)
    \/ \E p \in Sequential : Return(p, {})

SpecFaults == Init /\ [][NextFaults]_vars

\* One account and its reset tickets, one request at a time: one reset more
\* than MaxResets may be requested, for the account's email or for an email
\* that has no account; the clock advances by the hour.
TicketRegisterInputs == ResetRaceRegisterInputs
TicketResetInputs == [token : Secrets, newPassword : {"newpassw"}]

NextTickets ==
    \/ \E p \in Sequential : \E data \in TicketRegisterInputs :
          RegisterStart(p, data)
    \/ \E p \in Sequential : RegisterFindUsername(p)
    \/ \E p \in Sequential : \E salt \in {1} : RegisterCreateUser(p, salt)
    \/ \E p \in Sequential : RegisterCreateProfile(p)
    \/ \E p \in Sequential : RegisterCreatePreferences(p)
    \/ \E p \in Sequential : \E email \in {EmailA, EmailB} :
          nextSecret < MaxResets + 1 /\ RequestResetFind(p, [email |-> email])
    \/ \E p \in Sequential : \E salt \in Salts : RequestResetCreate(p, salt)
    \/ \E p \in Sequential : \E data \in TicketResetInputs : \E salt \in Salts :
          ResetLookup(p, data, salt)
    \/ \E p \in Sequential : \E salt \in {1} : ResetUpdate(p, salt)
    \/ \E p \in Sequential : ResetDelete(p)
    \/ \E p \in Sequential : Return(p, {})
    \/ ticks < MaxTicks /\ Tick(RESET_TOKEN_TTL)

SpecTickets == Init /\ [][NextTickets]_vars

\* The same requests under a clock that keeps advancing: past MaxTicks it
\* advances for as long as a stored ticket has not passed its expires_at.
ClockAdvances ==
    /\ ticks < MaxTicks \/ \E t \in tickets : ~(now > t.expires_at)
    /\ Tick(RESET_TOKEN_TTL)

NextTicketsLive ==
    \/ \E p \in Sequential : \E data \in TicketRegisterInputs :
          RegisterStart(p, data)
    \/ \E p \in Sequential : RegisterFindUsername(p)
    \/ \E p \in Sequential : \E salt \in {1} : RegisterCreateUser(p, salt)
    \/ \E p \in Sequential : RegisterCreateProfile(p)
    \/ \E p \in Sequential : RegisterCreatePreferences(p)
    \/ \E p \in Sequential : \E email \in {EmailA, EmailB} :
          nextSecret < MaxResets + 1 /\ RequestResetFind(p, [email |-> email])
    \/ \E p \in Sequential : \E salt \in Salts : RequestResetCreate(p, salt)
    \/ \E p \in Sequential : \E data \in TicketResetInputs : \E salt \in Salts :
          ResetLookup(p, data, salt)
    \/ \E p \in Sequential : \E salt \in {1} : ResetUpdate(p, salt)
    \/ \E p \in Sequential : ResetDelete(p)
    \/ \E p \in Sequential : Return(p, {})
    \/ ClockAdvances

SpecTicketsLive == Init /\ [][NextTicketsLive]_vars /\ WF_vars(ClockAdvances)

\* One registration, whose inserts the store may reject, and the updates of
\* the account it created: an account may be left without Preferences, or
\* without Profile and Preferences.
PartialRegisterInputs ==
    {[email |-> EmailA, password |-> "passw0rd", username |-> "alice"]}

NextPartial ==
    \/ \E p \in Sequential : \E data \in PartialRegisterInputs :
          RegisterStart(p, data)
    \/ \E p \in Sequential : RegisterFindUsername(p)
    \/ \E p \in Sequential : \E salt \in {1} : RegisterCreateUser(p, salt)
    \/ \E p \in Sequential : RegisterCreateProfile(p)
    \/ \E p \in Sequential : RegisterCreatePreferences(p)
    \/ \E p \in Sequential : \E u \in Updaters : \E updates \in ProfileRequests :
          ProtectedStart(p, "updateProfile", BearerHeader(u), u.id, updates)
    \/ \E p \in Sequential : \E u \in Updaters : \E updates \in PreferencesRequests :
          ProtectedStart(p, "updatePreferences", BearerHeader(u), u.id, updates)
    \/ \E p \in Sequential : UpdateProfileWrite(p)
    \/ \E p \in Sequential : UpdateProfileFindPreferences(p)
    \/ \E p \in Sequential : UpdatePreferencesWrite(p)
    \/ \E p \in Sequential : UpdatePreferencesFindProfile(p)
    \/ \E p \in Sequential : QueryFails(p)
    \/ \E p \in Sequential : Return(p, {})
    \/ ticks < MaxTicks /\ Tick(RESET_TOKEN_TTL)

SpecPartial == Init /\ [][NextPartial]_vars

\* Two accounts, the tokens their clients hold, logins, refreshes and the
\* password resets of one account, one request at a time; between two
\* requests the clock advances by the lifetime of an access token.
IdentityRegisterInputs == ProtectedRegisterInputs
IdentityLoginInputs == [email : {EmailA}, password : {"passw0rd", "newpassw"}]
IdentityResetInputs == [token : Secrets, newPassword : {"newpassw"}]

NextIdentity ==
    \/ \E p \in Sequential : \E data \in IdentityRegisterInputs :
          RegisterStart(p, data)
    \/ \E p \in Sequential : RegisterFindUsername(p)
    \/ \E p \in Sequential : \E salt \in {1} : RegisterCreateUser(p, salt)
    \/ \E p \in Sequential : RegisterCreateProfile(p)
    \/ \E p \in Sequential : RegisterCreatePreferences(p)
    \/ \E p \in Sequential : \E data \in IdentityLoginInputs : Login(p, data)
    \/ \E p \in Sequential : \E token \in held : RefreshValidate(p, token)
    \/ \E p \in Sequential : RefreshFindUser(p)
    \/ \E p \in Sequential :
          nextSecret < MaxResets /\ RequestResetFind(p, [email |-> EmailA])
    \/ \E p \in Sequential : \E salt \in Salts : RequestResetCreate(p, salt)
    \/ \E p \in Sequential : \E data \in IdentityResetInputs : \E salt \in Salts :
          ResetLookup(p, data, salt)
    \/ \E p \in Sequential : \E salt \in {1} : ResetUpdate(p, salt)
    \/ \E p \in Sequential : ResetDelete(p)
    \/ \E p \in Sequential : \E kept \in SUBSET TokensOf(req[p].resp) :
          Cardinality(held \cup kept) <= MaxHeld /\ Return(p, kept)
    \/ /\ ticks < MaxTicks
       /\ \A p \in Procs : Ready(p)
       /\ Tick(JWT_EXPIRY)

SpecIdentity == Init /\ [][NextIdentity]_vars

\* One account, the tokens its client holds, and every route that reads a
\* token, together with logins, profile updates and password resets, one
\* request at a time; between two requests the clock advances by an hour or
\* by the lifetime of an access token.
StatelessRegisterInputs == ResetRaceRegisterInputs
StatelessLoginInputs == [email : {EmailA}, password : {"passw0rd", "newpassw"}]
StatelessResetInputs == [token : Secrets, newPassword : {"newpassw"}]
StatelessUpdates == {[level |-> 2]}
StatelessTickSteps == {RESET_TOKEN_TTL, JWT_EXPIRY}
HeldHeaders == {[scheme |-> "Bearer", token |-> t] : t \in held}

NextStateless ==
    \/ \E p \in Sequential : \E data \in StatelessRegisterInputs :
          RegisterStart(p, data)
    \/ \E p \in Sequential : RegisterFindUsername(p)
    \/ \E p \in Sequential : \E salt \in {1} : RegisterCreateUser(p, salt)
    \/ \E p \in Sequential : RegisterCreateProfile(p)
    \/ \E p \in Sequential : RegisterCreatePreferences(p)
    \/ \E p \in Sequential : \E data \in StatelessLoginInputs : Login(p, data)
    \/ \E p \in Sequential : \E token \in held : RefreshValidate(p, token)
    \/ \E p \in Sequential : RefreshFindUser(p)
    \/ \E p \in Sequential : \E token \in held : Validate(p, token)
    \/ \E p \in Sequential : \E header \in HeldHeaders : \E u \in users :
          \E updates \in StatelessUpdates :
              ProtectedStart(p, "updateProfile", header, u.id, updates)
    \/ \E p \in Sequential : UpdateProfileWrite(p)
    \/ \E p \in Sequential : UpdateProfileFindPreferences(p)
    \/ \E p \in Sequential :
          nextSecret < MaxResets /\ RequestResetFind(p, [email |-> EmailA])
    \/ \E p \in Sequential : \E salt \in {1} : RequestResetCreate(p, salt)
    \/ \E p \in Sequential : \E data \in StatelessResetInputs : \E salt \in {1} :
          ResetLookup(p, data, salt)
    \/ \E p \in Sequential : \E salt \in {1} : ResetUpdate(p, salt)
    \/ \E p \in Sequential : ResetDelete(p)
    \/ \E p \in Sequential : \E kept \in SUBSET TokensOf(req[p].resp) :
          Cardinality(held \cup kept) <= MaxHeld /\ Return(p, kept)
    \/ \E d \in StatelessTickSteps :
          /\ ticks < MaxTicks
          /\ \A p \in Procs : Ready(p)
          /\ Tick(d)

SpecStateless == Init /\ [][NextStateless]_vars

-----------------------------------------------------------------------------
(* Claims *)

Done(p, op) == req[p].op = op /\ req[p].pc = "done"

\* The password has at least 8 characters.
LongEnough(password) == Len(password) >= 8

\* The token was issued by the service and the client held it.
Issued(p, token) == token \in req[p].pre.held

\* The token verifies, at the instant it was issued, as the identity of user.
VerifiesAs(token, user) ==
    LET v == validateToken(token, token.claims.iat)
    IN /\ ~IsError(v)
       /\ v.valid
       /\ v.userId = user.id
       /\ v.email = user.email
       /\ v.username = user.username

\* C1 as stated: once a successful resetPassword has consumed a reset secret,
\* every later resetPassword presenting that secret fails INVALID_RESET_TOKEN
\* and changes no account.
C1_ConsumedSecretFailsInvalidResetToken ==
    \A p \in Procs :
        (req[p].op = "resetPassword" /\ req[p].arg.token \in req[p].pre.consumed)
            => /\ req[p].pc = "done"
               /\ IsError(req[p].resp)
               /\ req[p].resp.error = ErrorCodes.INVALID_RESET_TOKEN
               /\ users = req[p].pre.users

\* C1 as amended: once a successful resetPassword has consumed a reset secret,
\* every later resetPassword presenting that secret fails and changes no
\* account: with WEAK_PASSWORD when the new password is shorter than 8
\* characters, with INVALID_RESET_TOKEN otherwise.
C1_ConsumedSecretNeverReused ==
    \A p \in Procs :
        (req[p].op = "resetPassword" /\ req[p].arg.token \in req[p].pre.consumed)
            => /\ req[p].pc = "done"
               /\ IsError(req[p].resp)
               /\ req[p].resp.error =
                      IF LongEnough(req[p].arg.newPassword)
                      THEN ErrorCodes.INVALID_RESET_TOKEN
                      ELSE ErrorCodes.WEAK_PASSWORD
               /\ users = req[p].pre.users

C1_Witness ==
    \E p \in Procs :
        /\ Done(p, "resetPassword")
        /\ req[p].arg.token \in req[p].pre.consumed
        /\ LongEnough(req[p].arg.newPassword)
        /\ req[p].resp.error = ErrorCodes.INVALID_RESET_TOKEN

\* C2: a resetPassword that presents the secret delivered by an earlier
\* requestPasswordReset of an existing account, before the ticket expires and
\* before it is consumed, with a new password of at least 8 characters,
\* succeeds: the account's password becomes the new one (login with it
\* succeeds) and the ticket is deleted.
C2_DeliveredSecretResetsPassword ==
    \A p \in Procs :
        (/\ Done(p, "resetPassword")
         /\ LongEnough(req[p].arg.newPassword)
         /\ req[p].arg.token \notin req[p].pre.consumed
         /\ \E t \in req[p].pre.tickets :
                t.token_hash.plain = req[p].arg.token /\ now < t.expires_at)
            => /\ req[p].resp.status = 200
               /\ \A t \in req[p].pre.tickets :
                      t.token_hash.plain = req[p].arg.token
                          => /\ t \notin tickets
                             /\ \E u \in users :
                                    /\ u.id = t.user_id
                                    /\ ~IsError(loginUser(
                                           [email |-> u.email,
                                            password |-> req[p].arg.newPassword]))

\* C3: a token issued at t0 with lifetime T (24 h for an access token, 7 d for
\* a refresh token) verifies at every time before t0 + T and fails with
\* EXPIRED_TOKEN at every time after t0 + T.
Lifetime(token) ==
    IF token.claims.type = "access" THEN JWT_EXPIRY ELSE JWT_REFRESH_EXPIRY

C3_TokenValidUntilLifetimeEnds ==
    \A p \in Procs :
        (Done(p, "validate") /\ Issued(p, req[p].arg.token))
            => LET token == req[p].arg.token
                   end == token.claims.iat + Lifetime(token)
               IN /\ req[p].pre.now < end
                      => /\ req[p].resp.status = 200
                         /\ req[p].resp.valid
                  /\ req[p].pre.now > end
                      => /\ IsError(req[p].resp)
                         /\ req[p].resp.error = ErrorCodes.EXPIRED_TOKEN

C3_Witness ==
    \E p \in Procs :
        /\ Done(p, "validate")
        /\ Issued(p, req[p].arg.token)
        /\ req[p].arg.token.claims.type = "refresh"
        /\ req[p].pre.now > req[p].arg.token.claims.iat + JWT_REFRESH_EXPIRY
        /\ req[p].resp.error = ErrorCodes.EXPIRED_TOKEN

\* C4: validateToken fails with EXPIRED_TOKEN exactly when the token was signed
\* by the service and its expiry instant has been reached; every other
\* rejected token (altered payload, foreign secret, no JWT at all) fails with
\* INVALID_TOKEN; and only a token signed by the service is ever valid.
C4_ExpiredOnlyWhenSignedAndPastExpiry ==
    \A p \in Procs :
        (Done(p, "validate") /\ req[p].arg.token.format # "missing")
            => LET token == req[p].arg.token
                   resp == req[p].resp
                   expired == /\ Issued(p, token)
                              /\ token.claims.exp <= req[p].pre.now
               IN /\ (IsError(resp) /\ resp.error = ErrorCodes.EXPIRED_TOKEN)
                      <=> expired
                  /\ (IsError(resp) /\ ~expired)
                      => resp.error = ErrorCodes.INVALID_TOKEN
                  /\ ~Issued(p, token) => IsError(resp)

C4_Witness ==
    \E p \in Procs :
        /\ Done(p, "validate")
        /\ \E t \in req[p].pre.held :
               /\ req[p].arg.token = Forged(t)
               /\ t.claims.exp <= req[p].pre.now
        /\ req[p].resp.error = ErrorCodes.INVALID_TOKEN

\* C5: register with a well-formed email, a password of at least 8 characters
\* and an email and username no account holds creates the account and answers
\* 201 with its public row, one access token and one refresh token, each of
\* which verifies as the new user's id, email and username.
C5_RegisterCreatesAccountAndTokens ==
    \A p \in Procs :
        (/\ Done(p, "register")
         /\ validateEmail(req[p].arg.email)
         /\ LongEnough(req[p].arg.password)
         /\ ~\E u \in req[p].pre.users :
                u.email = req[p].arg.email \/ u.username = req[p].arg.username)
            => /\ req[p].resp.status = 201
               /\ \E u \in users \ req[p].pre.users :
                      /\ UserRow(u) = req[p].resp.user
                      /\ u.email = req[p].arg.email
                      /\ u.username = req[p].arg.username
                      /\ bcryptCompare(req[p].arg.password, u.password_hash)
               /\ \E f \in profiles : f.user_id = req[p].resp.user.id
               /\ \E f \in preferences : f.user_id = req[p].resp.user.id
               /\ req[p].resp.token.claims.type = "access"
               /\ req[p].resp.refreshToken.claims.type = "refresh"
               /\ VerifiesAs(req[p].resp.token, req[p].resp.user)
               /\ VerifiesAs(req[p].resp.refreshToken, req[p].resp.user)

C5_Witness ==
    \E p \in Procs :
        /\ Done(p, "register")
        /\ req[p].pre.users # {}
        /\ Len(req[p].arg.password) = PASSWORD_MIN_LENGTH
        /\ req[p].resp.status = 201

\* C6 as stated: register with an email some account holds fails EMAIL_TAKEN;
\* with a fresh email and a username some account holds it fails
\* USERNAME_TAKEN; in both cases no row is created.
C6_DuplicateRejected ==
    \A p \in Procs :
        Done(p, "register")
            => LET emailHeld == \E u \in req[p].pre.users :
                                    u.email = req[p].arg.email
                   nameHeld == \E u \in req[p].pre.users :
                                    u.username = req[p].arg.username
               IN /\ emailHeld
                      => /\ IsError(req[p].resp)
                         /\ req[p].resp.error = ErrorCodes.EMAIL_TAKEN
                  /\ (~emailHeld /\ nameHeld)
                      => /\ IsError(req[p].resp)
                         /\ req[p].resp.error = ErrorCodes.USERNAME_TAKEN
                  /\ (emailHeld \/ nameHeld)
                      => /\ users = req[p].pre.users
                         /\ profiles = req[p].pre.profiles
                         /\ preferences = req[p].pre.preferences

\* C6 as amended: register with a well-formed email and a password of at least
\* 8 characters fails EMAIL_TAKEN when some account holds the email, and
\* USERNAME_TAKEN when the email is fresh and some account holds the username;
\* in both cases no row is created.
C6_ValidDuplicateRejected ==
    \A p \in Procs :
        (/\ Done(p, "register")
         /\ validateEmail(req[p].arg.email)
         /\ LongEnough(req[p].arg.password))
            => LET emailHeld == \E u \in req[p].pre.users :
                                    u.email = req[p].arg.email
                   nameHeld == \E u \in req[p].pre.users :
                                    u.username = req[p].arg.username
               IN /\ emailHeld
                      => /\ IsError(req[p].resp)
                         /\ req[p].resp.error = ErrorCodes.EMAIL_TAKEN
                  /\ (~emailHeld /\ nameHeld)
                      => /\ IsError(req[p].resp)
                         /\ req[p].resp.error = ErrorCodes.USERNAME_TAKEN
                  /\ (emailHeld \/ nameHeld)
                      => /\ users = req[p].pre.users
                         /\ profiles = req[p].pre.profiles
                         /\ preferences = req[p].pre.preferences

C6_Witness ==
    \E p \in Procs :
        /\ Done(p, "register")
        /\ validateEmail(req[p].arg.email)
        /\ LongEnough(req[p].arg.password)
        /\ ~\E u \in req[p].pre.users : u.email = req[p].arg.email
        /\ \E u \in req[p].pre.users : u.username = req[p].arg.username
        /\ req[p].resp.error = ErrorCodes.USERNAME_TAKEN

\* C7: login with a well-formed email fails with the same INVALID_CREDENTIALS
\* error (same message, same status) whether no account has the email or the
\* account's password differs; and login never fails WEAK_PASSWORD.
C7_LoginFailuresIndistinguishable ==
    \A p \in Procs :
        Done(p, "login")
            => LET account == {u \in req[p].pre.users :
                                  u.email = req[p].arg.email}
                   wrong == \E u \in account :
                                u.password_hash.plain # req[p].arg.password
               IN /\ (validateEmail(req[p].arg.email)
                         /\ (account = {} \/ wrong))
                      => req[p].resp =
                             ServiceError(ErrorCodes.INVALID_CREDENTIALS,
                                          "Invalid email or password", 401)
                  /\ IsError(req[p].resp)
                      => req[p].resp.error # ErrorCodes.WEAK_PASSWORD

C7_Witness ==
    \E p \in Procs :
        /\ Done(p, "login")
        /\ \E u \in req[p].pre.users :
               /\ u.email = req[p].arg.email
               /\ u.password_hash.plain # req[p].arg.password
        /\ ~LongEnough(req[p].arg.password)
        /\ req[p].resp.error = ErrorCodes.INVALID_CREDENTIALS

\* C8: login with the email and password an account was registered with
\* succeeds for that account and returns an access and a refresh token for
\* it, whatever happened in between, as long as that account's password was
\* not reset.
C8_LoginAfterRegister ==
    \A p \in Procs :
        Done(p, "login")
            => \A r \in req[p].pre.registered :
                   (/\ r.email = req[p].arg.email
                    /\ r.password = req[p].arg.password
                    /\ r.id \notin req[p].pre.resetUsers)
                       => /\ req[p].resp.status = 200
                          /\ req[p].resp.user.id = r.id
                          /\ req[p].resp.user.email = r.email
                          /\ req[p].resp.user.username = r.username
                          /\ req[p].resp.token.claims.type = "access"
                          /\ req[p].resp.refreshToken.claims.type = "refresh"
                          /\ VerifiesAs(req[p].resp.token, r)
                          /\ VerifiesAs(req[p].resp.refreshToken, r)

C8_Witness ==
    \E p \in Procs :
        /\ Done(p, "login")
        /\ req[p].resp.status = 200
        /\ req[p].pre.resetUsers # {}
        /\ req[p].resp.user.id \notin req[p].pre.resetUsers

\* C9: refreshAccessToken with a token that validateToken rejects (expired,
\* altered or malformed) fails INVALID_TOKEN.
C9_RejectedRefreshFailsInvalidToken ==
    \A p \in Procs :
        (/\ Done(p, "refresh")
         /\ IsError(validateToken(req[p].arg.refreshToken, req[p].pre.now)))
            => /\ IsError(req[p].resp)
               /\ req[p].resp.error = ErrorCodes.INVALID_TOKEN

\* C10: refreshAccessToken with an issued, unexpired refresh token of an
\* existing account answers exactly one new access token for the same user
\* id, email and username, issues no refresh token, leaves the store as it
\* was, and the presented refresh token still verifies until its own expiry.
C10_RefreshIssuesAccessTokenOnly ==
    \A p \in Procs :
        (/\ Done(p, "refresh")
         /\ Issued(p, req[p].arg.refreshToken)
         /\ req[p].arg.refreshToken.claims.type = "refresh"
         /\ req[p].pre.now < req[p].arg.refreshToken.claims.exp
         /\ \E u \in req[p].pre.users :
                u.id = req[p].arg.refreshToken.claims.userId)
            => LET old == req[p].arg.refreshToken
                   resp == req[p].resp
               IN /\ DOMAIN resp = {"status", "token"}
                  /\ resp.status = 200
                  /\ resp.token.claims.type = "access"
                  /\ resp.token.claims.iat >= req[p].pre.now
                  /\ resp.token.claims.iat <= now
                  /\ VerifiesAs(resp.token,
                                [id |-> old.claims.userId,
                                 email |-> old.claims.email,
                                 username |-> old.claims.username])
                  /\ users = req[p].pre.users
                  /\ profiles = req[p].pre.profiles
                  /\ preferences = req[p].pre.preferences
                  /\ tickets = req[p].pre.tickets
                  /\ now < old.claims.exp
                      => ~IsError(validateToken(old, now))

C10_Witness ==
    \E p \in Procs :
        /\ Done(p, "refresh")
        /\ Issued(p, req[p].arg.refreshToken)
        /\ req[p].arg.refreshToken.claims.type = "refresh"
        /\ req[p].pre.now > req[p].arg.refreshToken.claims.iat
        /\ req[p].resp.status = 200

\* The request in slot p is one to a protected route.
Protected(p) == req[p].op \in {"getUser", "updateProfile", "updatePreferences"}

\* The request in slot p left the store as it found it.
StoreUntouched(p) ==
    /\ users = req[p].pre.users
    /\ profiles = req[p].pre.profiles
    /\ preferences = req[p].pre.preferences
    /\ tickets = req[p].pre.tickets

\* C11: a protected route runs its handler only for a request whose
\* Authorization header is "Bearer <token>" with an issued, unexpired token of
\* kind access; every other request (no header, another scheme, an invalid or
\* expired token, a refresh token) is answered 401 without any store access.
C11_ProtectedRoutesRequireAccessToken ==
    \A p \in Procs :
        Protected(p)
            => LET header == req[p].arg.header
                   accepted == /\ header.scheme = "Bearer"
                               /\ Issued(p, header.token)
                               /\ header.token.claims.type = "access"
                               /\ req[p].pre.now < header.token.claims.exp
               IN ~accepted
                      => /\ req[p].pc = "done"
                         /\ req[p].resp.status = 401
                         /\ req[p].io = {}
                         /\ StoreUntouched(p)

\* C12: refresh exchanges only refresh tokens: an issued, unexpired access
\* token presented to refresh is rejected and yields no new access token.
C12_AccessTokenNotExchangeable ==
    \A p \in Procs :
        (/\ Done(p, "refresh")
         /\ Issued(p, req[p].arg.refreshToken)
         /\ req[p].arg.refreshToken.claims.type = "access"
         /\ req[p].pre.now < req[p].arg.refreshToken.claims.exp)
            => /\ IsError(req[p].resp)
               /\ "token" \notin DOMAIN req[p].resp

\* C13: on every protected route an authenticated caller whose token identity
\* differs from the path id is refused with 403 UNAUTHORIZED 'Access denied',
\* whether or not an account has that id, never with USER_NOT_FOUND, and
\* before any store read or write.
C13_OtherIdentityForbidden ==
    \A p \in Procs :
        (/\ Protected(p)
         /\ req[p].arg.header.scheme = "Bearer"
         /\ Issued(p, req[p].arg.header.token)
         /\ req[p].pre.now < req[p].arg.header.token.claims.exp
         /\ req[p].arg.header.token.claims.userId # req[p].arg.userId)
            => /\ req[p].pc = "done"
               /\ req[p].resp = [status |-> 403, error |-> "UNAUTHORIZED",
                                 message |-> "Access denied"]
               /\ req[p].io = {}
               /\ StoreUntouched(p)

C13_Witness ==
    \E p \in Procs :
        /\ Done(p, "updateProfile")
        /\ Issued(p, req[p].arg.header.token)
        /\ req[p].pre.now < req[p].arg.header.token.claims.exp
        /\ req[p].arg.header.token.claims.userId # req[p].arg.userId
        /\ \E f \in req[p].pre.profiles : f.user_id = req[p].arg.userId
        /\ req[p].resp.status = 403

\* C14: requestReset answers the same response, status 200 and the same
\* message, for an email that has an account and for one that has none.
C14_RequestResetAnswersUniformly ==
    \A p \in Procs :
        Done(p, "requestReset")
            => req[p].resp =
                   [status |-> 200,
                    message |->
                        "If the email exists, a password reset link has been sent"]

C14_Witness ==
    \E p \in Procs :
        /\ Done(p, "requestReset")
        /\ \E u \in req[p].pre.users : u.email = req[p].arg.email
        /\ tickets # req[p].pre.tickets
        /\ req[p].resp.status = 200

\* The email has the shape local@domain.tld: one "@" after a non-empty local
\* part, a "." inside what follows it with characters on both sides, no space.
WellFormed(email) ==
    /\ Cardinality({i \in 1..Len(email) : email[i] = "@"}) = 1
    /\ \A i \in 1..Len(email) : email[i] # " "
    /\ \E i \in 2..Len(email) : \E j \in (i + 2)..(Len(email) - 1) :
           email[i] = "@" /\ email[j] = "."

\* The request in slot p was refused with this code before any repository call.
RefusedUnseen(p, code) ==
    /\ IsError(req[p].resp)
    /\ req[p].resp.error = code
    /\ req[p].io = {}
    /\ StoreUntouched(p)

\* C15 as stated: register with a malformed email fails INVALID_EMAIL, register
\* with a password shorter than 8 fails WEAK_PASSWORD, login with a malformed
\* email fails INVALID_EMAIL and confirmReset with a new password shorter than
\* 8 fails WEAK_PASSWORD, each without any store read or write.
C15_ValidationBeforeStore ==
    \A p \in Procs :
        /\ (Done(p, "register") /\ ~WellFormed(req[p].arg.email))
               => RefusedUnseen(p, "INVALID_EMAIL")
        /\ (Done(p, "register") /\ ~LongEnough(req[p].arg.password))
               => RefusedUnseen(p, "WEAK_PASSWORD")
        /\ (Done(p, "login") /\ ~WellFormed(req[p].arg.email))
               => RefusedUnseen(p, "INVALID_EMAIL")
        /\ (Done(p, "resetPassword") /\ ~LongEnough(req[p].arg.newPassword))
               => RefusedUnseen(p, "WEAK_PASSWORD")

\* C15 as amended: register with a malformed email fails INVALID_EMAIL, register
\* with a well-formed email and a password shorter than 8 fails WEAK_PASSWORD,
\* login with a malformed email fails INVALID_EMAIL and confirmReset with a new
\* password shorter than 8 fails WEAK_PASSWORD, each without any store read or
\* write.
C15_ValidationInOrderBeforeStore ==
    \A p \in Procs :
        /\ (Done(p, "register") /\ ~WellFormed(req[p].arg.email))
               => RefusedUnseen(p, "INVALID_EMAIL")
        /\ (Done(p, "register") /\ WellFormed(req[p].arg.email)
                /\ ~LongEnough(req[p].arg.password))
               => RefusedUnseen(p, "WEAK_PASSWORD")
        /\ (Done(p, "login") /\ ~WellFormed(req[p].arg.email))
               => RefusedUnseen(p, "INVALID_EMAIL")
        /\ (Done(p, "resetPassword") /\ ~LongEnough(req[p].arg.newPassword))
               => RefusedUnseen(p, "WEAK_PASSWORD")

C15_Witness ==
    \E p \in Procs :
        /\ Done(p, "register")
        /\ \E u \in req[p].pre.users : u.email = req[p].arg.email
        /\ ~LongEnough(req[p].arg.password)
        /\ req[p].resp.error = "WEAK_PASSWORD"
        /\ req[p].io = {}

\* C16: in every reachable state, under any interleaving of concurrent
\* register requests, no two accounts have the same email and no two
\* accounts have the same username.
C16_EmailAndUsernameUnique ==
    \A u \in users : \A v \in users :
        u # v => /\ u.email # v.email
                 /\ u.username # v.username
                 /\ u.id # v.id

\* Two registrations of the same email both passed the existence checks, and
\* the second insert was rejected.
C16_Witness ==
    \E p \in Procs : \E q \in Procs \ {p} :
        /\ Done(p, "register")
        /\ req[p].io = {"findUserByEmail", "findUserByUsername", "createUser"}
        /\ IsError(req[p].resp)
        /\ req[q].op = "register"
        /\ req[q].arg.email = req[p].arg.email
        /\ "createUser" \in req[q].io
        /\ \E u \in users : u.email = req[p].arg.email

\* C17: a register request that passed the existence checks and whose insert
\* the store rejected, because a concurrent registration took the email or
\* the username first, fails with the 409 conflict EMAIL_TAKEN or
\* USERNAME_TAKEN, not with an infrastructure error.
C17_RaceLoserGetsConflict ==
    \A p \in Procs :
        (/\ Done(p, "register")
         /\ "createUser" \in req[p].io
         /\ IsError(req[p].resp))
            => /\ req[p].resp.status = 409
               /\ req[p].resp.error =
                      IF \E u \in users : u.email = req[p].arg.email
                      THEN "EMAIL_TAKEN" ELSE "USERNAME_TAKEN"

\* C18: once a register call has completed successfully the created account
\* has exactly one profile and exactly one preferences record; in every
\* reachable state no account has more than one of either, and every profile
\* and preferences record references an existing account.
C18_OneProfileAndPreferencesPerAccount ==
    /\ \A r \in registered :
           /\ Cardinality({f \in profiles : f.user_id = r.id}) = 1
           /\ Cardinality({f \in preferences : f.user_id = r.id}) = 1
    /\ \A u \in users :
           /\ Cardinality({f \in profiles : f.user_id = u.id}) <= 1
           /\ Cardinality({f \in preferences : f.user_id = u.id}) <= 1
    /\ \A f \in profiles \cup preferences : \E u \in users : u.id = f.user_id

C18_Witness ==
    /\ registered # {}
    /\ \E p \in Procs :
           /\ req[p].pc = "reg_createPreferences"
           /\ req[p].loc.user.id \notin {r.id : r \in registered}

\* C19: once the account update or the ticket deletion of one confirmReset has
\* completed, no other confirmReset presenting the same secret, concurrent or
\* later, changes the password.
C19_TicketNotReusableAfterEitherStep ==
    [][\A q \in Procs :
           (req[q].pc = "rp_update" /\ req'[q].pc = "rp_delete")
               => /\ req[q].arg.token \notin consumed
                  /\ \A p \in Procs \ {q} :
                         ~(/\ req[p].op = "resetPassword"
                           /\ req[p].arg.token = req[q].arg.token
                           /\ req[p].pc = "rp_delete")]_vars

\* C20: a ticket whose expiry instant has passed is never honored.  A
\* confirmReset whose lookup runs when every ticket of the presented secret
\* has expired fails INVALID_RESET_TOKEN; one whose lookup matched and whose
\* ticket has expired at the re-check fails RESET_TOKEN_EXPIRED; in both
\* cases no password is changed and no ticket is deleted.
C20_ExpiredTicketNeverHonored ==
    [][\A p \in Procs :
           /\ (/\ req[p].pc = "idle"
               /\ req'[p].op = "resetPassword"
               /\ LongEnough(req'[p].arg.newPassword)
               /\ \E t \in tickets : t.token_hash.plain = req'[p].arg.token
               /\ \A t \in tickets :
                      t.token_hash.plain = req'[p].arg.token => t.expires_at < now)
                  => /\ req'[p].pc = "done"
                     /\ req'[p].resp.error = "INVALID_RESET_TOKEN"
                     /\ users' = users
                     /\ tickets' = tickets
           /\ (/\ req[p].pc = "rp_update"
               /\ req'[p].pc # "rp_update"
               /\ req[p].loc.resetToken.expires_at < now)
                  => /\ req'[p].pc = "done"
                     /\ req'[p].resp.error = "RESET_TOKEN_EXPIRED"
                     /\ users' = users
                     /\ tickets' = tickets]_vars

C20_Witness ==
    \E p \in Procs :
        /\ Done(p, "resetPassword")
        /\ IsError(req[p].resp)
        /\ req[p].resp.error = "RESET_TOKEN_EXPIRED"
        /\ users = req[p].pre.users
        /\ tickets = req[p].pre.tickets

\* The fields of a returned user record (the two timestamps are left out of
\* the model).
PublicUserFields == {"id", "email", "username", "is_active"}

\* C21: the response of a successful register or login never contains the
\* account's password hash: it carries the user record and the two tokens,
\* the user record has only id, email, username and the active flag, and the
\* tokens carry only the identity, the token type and the two instants.
C21_ResponsesCarryNoPasswordHash ==
    \A p \in Procs :
        ((Done(p, "register") \/ Done(p, "login")) /\ ~IsError(req[p].resp))
            => /\ DOMAIN req[p].resp = {"status", "user", "token", "refreshToken"}
               /\ DOMAIN req[p].resp.user = PublicUserFields
               /\ \A t \in TokensOf(req[p].resp) :
                      DOMAIN t.claims = {"userId", "email", "username", "type",
                                         "iat", "exp"}

C21_Witness ==
    \E p \in Procs :
        /\ Done(p, "login")
        /\ ~IsError(req[p].resp)
        /\ \E u \in users :
               /\ u.id = req[p].resp.user.id
               /\ u.email = req[p].arg.email
               /\ bcryptCompare(req[p].arg.password, u.password_hash)

\* The fields an update request may carry.
ProfileFields == {"avatar_url", "level", "experience", "stats_wins", "stats_losses"}
PreferencesFields == {"notifications_enabled", "language", "theme"}

\* The record of table that belongs to the account userId.
RecordOf(table, userId) == CHOOSE f \in table : f.user_id = userId

\* new is old with the fields the request carries replaced by the request's
\* values, every other field but the update timestamp as it was.
OnlyRequested(old, new, request, fields) ==
    /\ DOMAIN new = DOMAIN old
    /\ \A c \in DOMAIN old \ {"updated_at"} :
           new[c] = IF c \in fields \cap DOMAIN request THEN request[c] ELSE old[c]

\* The record's update timestamp was written while the request in slot p ran.
Touched(p, record) ==
    /\ record.updated_at.by = "UPDATE"
    /\ record.updated_at.at >= req[p].pre.now
    /\ record.updated_at.at <= now

\* C22: updateProfile and updatePreferences change only the fields present in
\* the request: after a successful call every field absent from the request
\* has its previous value, every field present has the request's value, and
\* the update timestamp is that of the call, an empty request included;
\* updateProfile never changes a Preferences record, updatePreferences never
\* changes a Profile record, and neither changes an account, a reset ticket
\* or a record of another user.
C22_UpdatesChangeOnlyRequestedFields ==
    \A p \in Procs :
        /\ req[p].op = "updateProfile"
               => /\ users = req[p].pre.users
                  /\ preferences = req[p].pre.preferences
                  /\ tickets = req[p].pre.tickets
                  /\ {f \in profiles : f.user_id # req[p].arg.userId}
                         = {f \in req[p].pre.profiles : f.user_id # req[p].arg.userId}
        /\ (Done(p, "updateProfile") /\ ~IsError(req[p].resp))
               => LET old == RecordOf(req[p].pre.profiles, req[p].arg.userId)
                      new == RecordOf(profiles, req[p].arg.userId)
                  IN /\ OnlyRequested(old, new, req[p].arg.updates, ProfileFields)
                     /\ Touched(p, new)
                     /\ req[p].resp.profile = new
        /\ req[p].op = "updatePreferences"
               => /\ users = req[p].pre.users
                  /\ profiles = req[p].pre.profiles
                  /\ tickets = req[p].pre.tickets
                  /\ {f \in preferences : f.user_id # req[p].arg.userId}
                         = {f \in req[p].pre.preferences : f.user_id # req[p].arg.userId}
        /\ (Done(p, "updatePreferences") /\ ~IsError(req[p].resp))
               => LET old == RecordOf(req[p].pre.preferences, req[p].arg.userId)
                      new == RecordOf(preferences, req[p].arg.userId)
                  IN /\ OnlyRequested(old, new, req[p].arg.updates, PreferencesFields)
                     /\ Touched(p, new)
                     /\ req[p].resp.preferences = new

\* An empty updateProfile request succeeded on a profile that an earlier
\* update had changed, while another account had its own records.
C22_Witness ==
    \E p \in Procs :
        /\ Done(p, "updateProfile")
        /\ ~IsError(req[p].resp)
        /\ DOMAIN req[p].arg.updates = {}
        /\ \E f \in req[p].pre.profiles :
               /\ f.user_id = req[p].arg.userId
               /\ f.level = 2
               /\ f.updated_at # req[p].resp.profile.updated_at
        /\ \E f \in profiles : f.user_id # req[p].arg.userId

\* C23: every response with a given error code has the same status, one of
\* 400, 401, 403, 404, 409, 500, across the routes and the authentication
\* middleware: an error response agrees in status with whatever the middleware
\* and the validate route answer under the same code; and the refusal of an
\* authenticated caller whose identity differs from the path id is not the
\* response the middleware gives to a missing or bad token.
C23_OneStatusClassPerErrorCode ==
    \A p \in Procs :
        (req[p].pc = "done" /\ IsError(req[p].resp))
            => /\ req[p].resp.status \in {400, 401, 403, 404, 409, 500}
               /\ \A header \in Headers :
                      LET other == authenticate(header, now)
                      IN (IsError(other) /\ other.error = req[p].resp.error)
                             => other.status = req[p].resp.status
               /\ \A token \in Presentable :
                      LET other == validateRoute(token)
                      IN (IsError(other) /\ other.error = req[p].resp.error)
                             => other.status = req[p].resp.status
               /\ (Protected(p) /\ req[p].resp.message = "Access denied")
                      => \A header \in Headers :
                             authenticate(header, now) # req[p].resp

\* C24: an account is created at registration and changed only by a password
\* change.  When a request has been answered, every account it found has its
\* id, email and username; an account it did not find was created by
\* register; a password hash differs from the one it found only if the
\* request is a successful confirmReset and the account is the one its
\* matched ticket references; and after a successful confirmReset that
\* account's hash is a digest of the new password.
C24_AccountChangedOnlyBySuccessfulReset ==
    \A p \in Procs :
        req[p].pc = "done"
            => /\ \A u \in req[p].pre.users : \E v \in users :
                      /\ v.id = u.id
                      /\ v.email = u.email
                      /\ v.username = u.username
                      /\ v.password_hash # u.password_hash
                             => /\ req[p].op = "resetPassword"
                                /\ ~IsError(req[p].resp)
                                /\ req[p].loc.resetToken.user_id = u.id
               /\ \A v \in users :
                      (\A u \in req[p].pre.users : u.id # v.id)
                          => req[p].op = "register"
               /\ (req[p].op = "resetPassword" /\ ~IsError(req[p].resp))
                      => \E v \in users :
                             /\ v.id = req[p].loc.resetToken.user_id
                             /\ bcryptCompare(req[p].arg.newPassword, v.password_hash)

\* The status each domain failure is raised with.
RaisedStatus ==
    [INVALID_EMAIL |-> 400, WEAK_PASSWORD |-> 400, EMAIL_TAKEN |-> 409,
     USERNAME_TAKEN |-> 409, INVALID_CREDENTIALS |-> 401, USER_NOT_FOUND |-> 404,
     EXPIRED_TOKEN |-> 401, INVALID_TOKEN |-> 401, INVALID_RESET_TOKEN |-> 400,
     RESET_TOKEN_EXPIRED |-> 400]

\* C25: every domain failure the service raises is answered with its own code
\* and the status it was raised with; every request one of whose store
\* queries failed is answered DATABASE_ERROR with status 500 and the generic
\* message, and no other request is; a register whose body has a well-formed
\* email and no password, which makes the service throw an exception that is
\* no ServiceError, is answered INTERNAL_ERROR with status 500 and the generic
\* message; an error response has no field besides status, code and message.
C25_ErrorsSurfaceAtTheBoundary ==
    \A p \in Procs :
        req[p].pc = "done"
            => /\ IsError(req[p].resp)
                      => /\ DOMAIN req[p].resp = {"status", "error", "message"}
                         /\ req[p].resp.error \in DOMAIN RaisedStatus
                                => req[p].resp.status = RaisedStatus[req[p].resp.error]
               /\ "failed" \in req[p].io
                      <=> req[p].resp = [status |-> 500, error |-> "DATABASE_ERROR",
                                         message |-> "Database operation failed"]
               /\ (/\ req[p].op = "register"
                   /\ "password" \notin DOMAIN req[p].arg
                   /\ WellFormed(req[p].arg.email))
                      => req[p].resp = [status |-> 500, error |-> "INTERNAL_ERROR",
                                        message |-> "Internal server error"]

\* A register request whose account insert succeeded and whose profile insert
\* failed was answered.
C25_Witness ==
    \E p \in Procs :
        /\ Done(p, "register")
        /\ {"createUser", "createUserProfile", "failed"} \subseteq req[p].io
        /\ IsError(req[p].resp)
        /\ req[p].resp.error = "DATABASE_ERROR"

\* A confirmReset succeeded while a second account existed.
C24_Witness ==
    \E p \in Procs :
        /\ Done(p, "resetPassword")
        /\ ~IsError(req[p].resp)
        /\ \E u \in req[p].pre.users : \E v \in users :
               /\ u.id = req[p].loc.resetToken.user_id
               /\ v.id = u.id
               /\ v.password_hash # u.password_hash
        /\ \E v \in users :
               /\ v.id # req[p].loc.resetToken.user_id
               /\ v \in req[p].pre.users

\* The values of a record, its identity and update timestamp aside.
ValuesOf(record) ==
    [c \in DOMAIN record \ {"id", "user_id", "updated_at"} |-> record[c]]

InitialProfile ==
    [avatar_url |-> "null", level |-> 1, experience |-> 0, stats_wins |-> 0,
     stats_losses |-> 0]
InitialPreferences ==
    [notifications_enabled |-> TRUE, language |-> "en", theme |-> "light"]

Incomplete(u, S) ==
    \/ \A f \in S.profiles : f.user_id # u.id
    \/ \A f \in S.preferences : f.user_id # u.id

\* C27: registration is not atomic.  A register whose account insert succeeded
\* and whose Profile or Preferences insert failed in the store is answered
\* with status 500 and no tokens, and its account row remains, without a
\* Profile or without Preferences.  While an account is in that state, a
\* register with its email and a password of at least 8 characters fails
\* EMAIL_TAKEN, a login with its email and password succeeds, and getProfile
\* for it fails USER_NOT_FOUND (each when the store answers its queries).
C27_RegistrationNotAtomic ==
    \A p \in Procs :
        /\ (/\ Done(p, "register")
            /\ "failed" \in req[p].io
            /\ req[p].io \cap {"createUserProfile", "createUserPreferences"} # {})
               => /\ req[p].resp.status = 500
                  /\ TokensOf(req[p].resp) = {}
                  /\ \E u \in users :
                         /\ u.email = req[p].arg.email
                         /\ u.username = req[p].arg.username
                         /\ u \notin req[p].pre.users
                         /\ Incomplete(u, store)
        /\ (req[p].pc = "done" /\ "failed" \notin req[p].io)
               => \A u \in req[p].pre.users :
                      Incomplete(u, req[p].pre)
                          => /\ (/\ req[p].op = "register"
                                 /\ "password" \in DOMAIN req[p].arg
                                 /\ req[p].arg.email = u.email
                                 /\ LongEnough(req[p].arg.password))
                                    => /\ IsError(req[p].resp)
                                       /\ req[p].resp.error = "EMAIL_TAKEN"
                                       /\ req[p].resp.status = 409
                             /\ (/\ req[p].op = "login"
                                 /\ req[p].arg.email = u.email
                                 /\ req[p].arg.password = u.password_hash.plain)
                                    => /\ req[p].resp.status = 200
                                       /\ req[p].resp.user.id = u.id
                                       /\ VerifiesAs(req[p].resp.token, u)
                             /\ (/\ req[p].op = "getUser"
                                 /\ req[p].arg.userId = u.id)
                                    => /\ IsError(req[p].resp)
                                       /\ req[p].resp.error = "USER_NOT_FOUND"
                                       /\ req[p].resp.status = 404

\* getProfile was refused for an account that has a Profile and no Preferences.
C27_Witness ==
    \E p \in Procs : \E u \in users :
        /\ Done(p, "getUser")
        /\ req[p].arg.userId = u.id
        /\ "failed" \notin req[p].io
        /\ \E f \in profiles : f.user_id = u.id
        /\ \A f \in preferences : f.user_id # u.id
        /\ IsError(req[p].resp)
        /\ req[p].resp.error = "USER_NOT_FOUND"

\* C28: requestReset for an email with an account adds exactly one reset
\* ticket: it references that account, expires one hour after an instant of
\* the request, holds a digest of the delivered secret in token_hash and has
\* no column for the secret; for an email with no account it adds nothing; in
\* both cases every existing ticket, account, profile and preferences record
\* stays as it was, so that an account may have several tickets.
C28_RequestResetAddsOneTicket ==
    \A p \in Procs :
        req[p].op = "requestReset"
            => /\ users = req[p].pre.users
               /\ profiles = req[p].pre.profiles
               /\ preferences = req[p].pre.preferences
               /\ req[p].pre.tickets \subseteq tickets
               /\ req[p].pc = "done"
                      => IF \E u \in req[p].pre.users : u.email = req[p].arg.email
                         THEN \E t \in tickets \ req[p].pre.tickets :
                                  /\ tickets = req[p].pre.tickets \cup {t}
                                  /\ \E u \in users :
                                         u.email = req[p].arg.email /\ t.user_id = u.id
                                  /\ t.expires_at >= req[p].pre.now + 1
                                  /\ t.expires_at <= now + 1
                                  /\ DOMAIN t = {"id", "user_id", "token_hash",
                                                 "expires_at", "created_at"}
                                  /\ bcryptCompare(nextSecret, t.token_hash)
                                  /\ [email |-> req[p].arg.email,
                                      secret |-> nextSecret] \in outbox
                         ELSE tickets = req[p].pre.tickets

\* A second ticket was added for an account that already had one.
C28_Witness ==
    \E p \in Procs :
        /\ Done(p, "requestReset")
        /\ \E s \in req[p].pre.tickets : \E t \in tickets \ req[p].pre.tickets :
               /\ s.user_id = t.user_id
               /\ s \in tickets

\* The response 404 USER_NOT_FOUND.
IsUserNotFound(resp) ==
    /\ IsError(resp)
    /\ resp.error = "USER_NOT_FOUND"
    /\ resp.status = 404

\* C29: getProfile writes nothing.  When the store answers its queries, it
\* fails USER_NOT_FOUND (404) if the account is missing, without looking for
\* the profile; else if the profile is missing, without looking for the
\* preferences; else if the preferences are missing; and otherwise it
\* succeeds, returning the account, the profile and the preferences of the
\* requested user id.
C29_GetProfileFetchOr404 ==
    \A p \in Procs :
        req[p].op = "getUser"
            => /\ StoreUntouched(p)
               /\ (/\ req[p].pc = "done"
                   /\ "findUserById" \in req[p].io
                   /\ "failed" \notin req[p].io)
                      => LET id == req[p].arg.userId
                             pre == req[p].pre
                         IN IF \A u \in pre.users : u.id # id
                            THEN /\ IsUserNotFound(req[p].resp)
                                 /\ req[p].io = {"findUserById"}
                            ELSE IF \A f \in pre.profiles : f.user_id # id
                            THEN /\ IsUserNotFound(req[p].resp)
                                 /\ req[p].io = {"findUserById", "findUserProfile"}
                            ELSE IF \A f \in pre.preferences : f.user_id # id
                            THEN /\ IsUserNotFound(req[p].resp)
                                 /\ req[p].io = {"findUserById", "findUserProfile",
                                                 "findUserPreferences"}
                            ELSE /\ req[p].resp.status = 200
                                 /\ req[p].resp.user.id = id
                                 /\ \E u \in pre.users :
                                        /\ u.id = id
                                        /\ req[p].resp.user.email = u.email
                                        /\ req[p].resp.user.username = u.username
                                 /\ req[p].resp.profile \in pre.profiles
                                 /\ req[p].resp.profile.user_id = id
                                 /\ req[p].resp.preferences \in pre.preferences
                                 /\ req[p].resp.preferences.user_id = id

\* getProfile was refused, without a look at the preferences, for an account
\* that has neither a Profile nor Preferences, while another account has all
\* three records.
C29_Witness ==
    \E p \in Procs :
        /\ Done(p, "getUser")
        /\ IsUserNotFound(req[p].resp)
        /\ req[p].io = {"findUserById", "findUserProfile"}
        /\ \A f \in preferences : f.user_id # req[p].arg.userId
        /\ \E f \in profiles : \E g \in preferences : f.user_id = g.user_id

\* The tickets the requests of SpecTicketsLive may issue, by the secret mailed.
TicketIds == 1..(MaxResets + 1)

IssuedTicket(s) == s \in {o.secret : o \in outbox}

\* A confirmReset can be honored by ticket s: a lookup with the mailed secret
\* finds it, or a request that has found it still passes the expiry check.
Honorable(s) ==
    \/ \E salt \in Salts :
           \E t \in findPasswordResetToken(bcryptHash(s, salt)) : t.id = s
    \/ \E p \in Procs :
           /\ req[p].pc = "rp_update"
           /\ req[p].loc.resetToken.id = s
           /\ ~(now > req[p].loc.resetToken.expires_at)

\* C30: while the clock keeps advancing, every issued reset ticket reaches a
\* state in which no confirmReset can be honored by it (it was consumed or
\* it expired), and from such a state it is never honorable again.
C30_TicketsEndConsumedOrExpired ==
    /\ \A s \in TicketIds : IssuedTicket(s) ~> ~Honorable(s)
    /\ [][\A s \in TicketIds :
              (IssuedTicket(s) /\ ~Honorable(s)) => ~Honorable(s)']_vars

\* One ticket was consumed and is gone, another one expired in the table.
C30_Witness ==
    \E s, r \in TicketIds :
        /\ s \in consumed /\ \A t \in tickets : t.id # s
        /\ \E t \in tickets : t.id = r /\ now > t.expires_at
        /\ ~Honorable(s) /\ ~Honorable(r)

\* The values of the rows of table that belong to the account userId, their
\* update timestamp aside.
RowsOf(table, userId) == {ValuesOf(f) : f \in {g \in table : g.user_id = userId}}

\* C31: an updateProfile or updatePreferences that fails USER_NOT_FOUND leaves
\* the Profile and the Preferences of the account it names with the values
\* they had when the request began: no requested field was applied.
C31_FailedUpdateChangesNothing ==
    \A p \in Procs :
        /\ Done(p, "updateProfile") \/ Done(p, "updatePreferences")
        /\ IsUserNotFound(req[p].resp)
        => /\ RowsOf(profiles, req[p].arg.userId) =
                  RowsOf(req[p].pre.profiles, req[p].arg.userId)
           /\ RowsOf(preferences, req[p].arg.userId) =
                  RowsOf(req[p].pre.preferences, req[p].arg.userId)

\* The tokens the service has issued: those its clients hold and those of the
\* responses of register, login and refresh not yet taken.
IssuedTokens ==
    held \cup UNION {TokensOf(req[p].resp) :
                        p \in {q \in Procs : req[q].pc = "done"}}

\* The token's claims are the id, email and username of an account.
ClaimsOfAnAccount(t) ==
    \E u \in users : /\ u.id = t.claims.userId
                     /\ u.email = t.claims.email
                     /\ u.username = t.claims.username

\* C32: no step deletes an account or changes its id, email or username; in
\* every state every issued token that still verifies carries the id, email
\* and username of an existing account; and no refresh with an issued token
\* fails USER_NOT_FOUND.
C32_TokensNameExistingAccounts ==
    /\ [](/\ \A t \in IssuedTokens :
                 ~IsError(validateToken(t, now)) => ClaimsOfAnAccount(t)
          /\ \A p \in Procs :
                 /\ Done(p, "refresh")
                 /\ req[p].arg.refreshToken \in req[p].pre.held
                 => ~IsUserNotFound(req[p].resp))
    /\ [][\A u \in users : \E v \in users' :
              v.id = u.id /\ v.email = u.email /\ v.username = u.username]_vars

\* A refresh with a token issued before a password reset of its account
\* succeeded after that reset.
C32_Witness ==
    \E p \in Procs :
        /\ Done(p, "refresh")
        /\ req[p].arg.refreshToken \in req[p].pre.held
        /\ req[p].resp.status = 200
        /\ req[p].arg.refreshToken.claims.userId \in resetUsers
        /\ ClaimsOfAnAccount(req[p].arg.refreshToken)

\* What validateToken answered for the token when it was issued.
ResultWhenIssued(t) ==
    [valid |-> TRUE, userId |-> t.claims.userId, email |-> t.claims.email,
     username |-> t.claims.username]

\* The token a finished request presented, where its route reads one.
PresentedToken(p) ==
    CASE req[p].op = "validate" -> req[p].arg.token
      [] req[p].op = "refresh" -> req[p].arg.refreshToken
      [] req[p].op = "updateProfile" -> req[p].arg.header.token

\* The request in slot p left the four tables as it found them.
StoreAsFound(p) ==
    /\ users = req[p].pre.users
    /\ profiles = req[p].pre.profiles
    /\ preferences = req[p].pre.preferences
    /\ tickets = req[p].pre.tickets

\* C33: token verification is stateless.  In every state, whatever requests
\* were served since it was issued, an issued token verifies with the result
\* of its issue until its expiry and fails EXPIRED_TOKEN from then on; a
\* route presented an issued, unexpired token never answers a token error
\* (status 401); /auth/validate answers without any store access; and login,
\* refresh and validate, which issue or verify tokens, leave the store as
\* they found it.
C33_VerificationIsStateless ==
    /\ \A t \in IssuedTokens :
           IF now < t.claims.exp
           THEN validateToken(t, now) = ResultWhenIssued(t)
           ELSE /\ IsError(validateToken(t, now))
                /\ validateToken(t, now).error = ErrorCodes.EXPIRED_TOKEN
    /\ \A p \in Procs :
           /\ req[p].pc = "done"
           /\ req[p].op \in {"validate", "refresh", "updateProfile"}
           /\ PresentedToken(p) \in req[p].pre.held
           /\ req[p].pre.now < PresentedToken(p).claims.exp
           => req[p].resp.status # 401
    /\ \A p \in Procs :
           Done(p, "validate") /\ req[p].arg.token \in req[p].pre.held
           => /\ req[p].io = {}
              /\ req[p].pre.now < req[p].arg.token.claims.exp
                 => /\ req[p].resp.status = 200
                    /\ req[p].resp.userId = req[p].arg.token.claims.userId
    /\ \A p \in Procs :
           Done(p, "login") \/ Done(p, "refresh") \/ Done(p, "validate")
           => StoreAsFound(p)

\* A token issued before a profile update and a password reset of its
\* account, and an hour or more ago, was presented to /auth/validate and
\* verified.
C33_Witness ==
    \E p \in Procs :
        /\ Done(p, "validate")
        /\ req[p].arg.token \in req[p].pre.held
        /\ req[p].resp.status = 200
        /\ req[p].arg.token.claims.userId \in resetUsers
        /\ req[p].arg.token.claims.iat < now
        /\ \E f \in profiles : /\ f.user_id = req[p].arg.token.claims.userId
                               /\ f.updated_at.by = "UPDATE"
                               /\ f.updated_at.at >= req[p].arg.token.claims.iat

====
